---- MODULE Spec2Model ----
(***************************************************************************)
(* Model of the greedy timetable scheduler of                              *)
(* src/timetable/simple_solver.py (class SimpleTimetableSolver).           *)
(*                                                                         *)
(* A course name is a Python string.  It is modelled as a sequence of      *)
(* atomic pieces of text (words, a blank " ", "(" and ")"), so that        *)
(* lower(), strip(), index('('), split('(') and the substring test         *)
(* 'lecture' in name are computed on the pieces as the code computes them  *)
(* on the characters.  A slot key f"{day}_{ts}" is the pair <<day, ts>>.    *)
(***************************************************************************)
EXTENDS Integers, Sequences, FiniteSets, TLC

(* ------------------------------ bounds -------------------------------- *)
MaxCourses == 3
MaxWeekly == 2
MaxTokens == 2
MaxSessions == 2

(* ------------------------- program constants -------------------------- *)
days == <<"Monday", "Tuesday", "Wednesday", "Thursday", "Friday">>

time_slots == <<"09:00-10:00", "10:00-11:00", "11:00-12:00", "12:00-13:00",
                "13:00-14:00", "14:00-15:00", "15:00-16:00", "16:00-17:00",
                "17:00-18:00">>

time_order == <<"09:00-10:00", "10:00-11:00", "11:00-12:00", "12:00-13:00",
                "13:00-14:00", "14:00-15:00", "15:00-16:00", "16:00-17:00",
                "17:00-18:00">>

allow_parallel == FALSE
default_lab_session_length == 2
MAX_ROUNDS == 50
retry_rounds == 10
RELAXED_FACULTY_CAP == 8
INITIAL_FACULTY_CAP == 5
MAX_RELAX_DEFICITS == 3

PENALTY_CONSECUTIVE_SAME_COURSE == 1
PENALTY_MULTIPLE_COURSE_PER_DAY == 1
PENALTY_LATE_LECTURE == 2
PENALTY_OVERLOADED_DAY == 2
PENALTY_VERY_LATE_LECTURE == 3
PENALTY_LUNCH_HOUR == 1
PENALTY_CORE_SUBJECT_LATE == 3
PENALTY_UNBALANCED_DAYS == 1
PENALTY_LECTURE_LAB_SAME_DAY == 2

core_courses ==
  [computer_science |->
     {<<"data structures">>, <<"software engineering">>, <<"computer networks">>,
      <<"database systems">>, <<"algorithms">>, <<"operating systems">>,
      <<"computer graphics">>, <<"machine learning">>, <<"artificial intelligence">>},
   information_technology |->
     {<<"data structures">>, <<"database systems">>, <<"computer networks">>,
      <<"web development">>, <<"software engineering">>, <<"cyber security">>}]

core_subjects == {<<"Mathematics">>, <<"Physics">>, <<"Data Structures">>,
                  <<"Operating Systems">>, <<"Database Systems">>}

(* ------------------------------ helpers ------------------------------- *)
Range(s) == {s[i] : i \in DOMAIN s}

DaySet == Range(days)
TimeSet == Range(time_slots)

SetMax(S) == CHOOSE x \in S : \A y \in S : y <= x
SetMin(S) == CHOOSE x \in S : \A y \in S : x <= y

(* lexicographic order of two tuples of integers of the same length,
   as Python orders tuples *)
RECURSIVE TupleLess(_, _)
TupleLess(a, b) ==
  IF a = <<>> \/ b = <<>> THEN FALSE
  ELSE IF Head(a) # Head(b) THEN Head(a) < Head(b)
  ELSE TupleLess(Tail(a), Tail(b))

(* ------------------------ strings (course names) ---------------------- *)
(* str.lower() on one piece of text *)
LowerPiece(p) ==
  CASE p = "Data Structures" -> "data structures"
    [] p = "Algorithms" -> "algorithms"
    [] p = "Mathematics" -> "mathematics"
    [] p = "Lecture" -> "lecture"
    [] p = "Lab" -> "lab"
    [] OTHER -> p

str_lower(s) == [i \in DOMAIN s |-> LowerPiece(s[i])]

RECURSIVE str_lstrip(_)
str_lstrip(s) == IF s # <<>> /\ Head(s) = " " THEN str_lstrip(Tail(s)) ELSE s

RECURSIVE str_rstrip(_)
str_rstrip(s) ==
  IF s # <<>> /\ s[Len(s)] = " " THEN str_rstrip(SubSeq(s, 1, Len(s) - 1)) ELSE s

str_strip(s) == str_rstrip(str_lstrip(s))

(* s.index(c): first position of c in s (1-based here) *)
str_index(s, c) == SetMin({i \in DOMAIN s : s[i] = c})

(* s.split('(')[0]: the text before the first "(", all of s when there is none *)
split_paren_first(s) ==
  IF "(" \in Range(s) THEN SubSeq(s, 1, str_index(s, "(") - 1) ELSE s

(* name.split('(')[0].strip() *)
base_course_of(name) == str_strip(split_paren_first(name))

(* 'lecture' in name.lower() *)
name_has_lecture(name) == "lecture" \in Range(str_lower(name))

(* 'lab' in name.lower() *)
name_has_lab(name) == "lab" \in Range(str_lower(name))

normalize_course_name(name) ==
  LET n == str_strip(str_lower(name))
  IN IF "(" \in Range(n) /\ ")" \in Range(n)
     THEN str_strip(SubSeq(n, 1, str_index(n, "(") - 1))
     ELSE n

courses_conflict_same_base_too(course1, course2) ==
  LET base1 == normalize_course_name(course1)
      base2 == normalize_course_name(course2)
  IN \E g \in DOMAIN core_courses :
        base1 \in core_courses[g] /\ base2 \in core_courses[g]

courses_conflict(course1, course2) ==
  LET base1 == normalize_course_name(course1)
      base2 == normalize_course_name(course2)
  IN IF base1 = base2 THEN FALSE
     ELSE \E g \in DOMAIN core_courses :
            base1 \in core_courses[g] /\ base2 \in core_courses[g]

(* ------------------------------ the grid ------------------------------ *)
get_time_index(time_slot) ==
  IF time_slot \in Range(time_order)
  THEN (CHOOSE i \in DOMAIN time_order : time_order[i] = time_slot) - 1
  ELSE 999

get_time_preference(time_slot) ==
  CASE time_slot = "09:00-10:00" -> 1
    [] time_slot = "10:00-11:00" -> 2
    [] time_slot = "11:00-12:00" -> 3
    [] time_slot = "12:00-13:00" -> 8
    [] time_slot = "13:00-14:00" -> 6
    [] time_slot = "14:00-15:00" -> 2
    [] time_slot = "15:00-16:00" -> 4
    [] time_slot = "16:00-17:00" -> 12
    [] time_slot = "17:00-18:00" -> 20
    [] OTHER -> 25

(* Python's a >= b on two band strings of the grid: the bands are written
   HH:MM-HH:MM with two digits, so the order of the strings is the order of
   their positions in the grid *)
time_str_ge(a, b) == get_time_index(a) >= get_time_index(b)

(* ------------------------------- state -------------------------------- *)
VARIABLES
  training_data,      \* courses_info: the course records, in insertion order
  scheduled_slots,    \* slot key -> list of the sessions placed there
  faculty_schedule,   \* faculty -> set of slot keys
  room_schedule,      \* room -> set of slot keys
  course_schedule,    \* slot key -> set of course names
  global_slot_usage,  \* slot keys already occupied
  day_load,           \* day -> number of placed slot-hours
  faculty_day_load,   \* <<faculty, day>> -> number of placed slot-hours
  MAX_FACULTY_SESSIONS_PER_DAY,
  expected_weekly,    \* course -> expected weekly units
  actual_weekly,      \* course -> placed units
  failure_reasons,    \* course -> reason
  course_states,      \* the priority-ordered list of course states
  pc,                 \* position inside solve_timetable / its caller
  round_idx,          \* main-loop round counter
  retry,              \* relaxation-loop counter
  progress,           \* progress flag of the current round
  idx,                \* position of the for loop over course_states
  timetable,          \* the value returned by solve_timetable
  conflicts,          \* the value returned by validate_timetable
  run,                \* number of the solve_timetable call on this instance
  log,                \* history: the units committed by the current call
  prev_log,           \* history: the units committed by the previous call
  prev_timetable,     \* history: the timetable returned by the previous call
  prev_removed,       \* history: courses dropped from the input of this call
  replay_ok,          \* history: this call could repeat the previous choices
  availability_data,  \* the argument of parse_availability_slots
  parsed_slots,       \* the list parse_availability_slots returned
  exact_courses,      \* exact solver: self.courses
  status,             \* exact solver: the status Solve returned
  solution,           \* exact solver: the decision variables whose value is 1
  has_metadata,       \* the training data has a 'metadata' entry
  ORTOOLS_AVAILABLE,  \* main.py: the module-level flag set at import
  prev_training_data, \* history: the input of the previous call
  courses_data,       \* the argument of solve_timetable_from_data
  schedule,           \* TimetableSolver: slot key -> list of entries
  sorted_courses      \* TimetableSolver: the courses in priority order

vars == <<training_data, scheduled_slots, faculty_schedule, room_schedule,
          course_schedule, global_slot_usage, day_load, faculty_day_load,
          MAX_FACULTY_SESSIONS_PER_DAY, expected_weekly, actual_weekly,
          failure_reasons, course_states, pc, round_idx, retry, progress, idx,
          timetable, conflicts, run, log, prev_log, prev_timetable,
          prev_removed, replay_ok, availability_data, parsed_slots,
          exact_courses, status, solution,
          has_metadata, ORTOOLS_AVAILABLE, prev_training_data, courses_data,
          schedule, sorted_courses>>

(* the variables of the calls made outside solve_timetable *)
exact_vars == <<exact_courses, status, solution>>

(* the variables of the legacy one-pass TimetableSolver *)
legacy_vars == <<schedule, sorted_courses>>

caller_vars ==
  <<has_metadata, ORTOOLS_AVAILABLE, prev_training_data, courses_data, legacy_vars>>

other_vars == <<availability_data, parsed_slots, exact_vars, caller_vars>>

EmptyMap == [x \in {} |-> x]

Put(map, k, v) == [x \in DOMAIN map \cup {k} |-> IF x = k THEN v ELSE map[x]]

(* scheduled_slots and course_schedule hold a key from the first commit at
   that key on: the lists and sets read from them, empty for a missing key *)
slot_sessions(slot_key) ==
  IF slot_key \in DOMAIN scheduled_slots THEN scheduled_slots[slot_key] ELSE <<>>

slot_courses(slot_key) ==
  IF slot_key \in DOMAIN course_schedule THEN course_schedule[slot_key] ELSE {}

(* the sessions of one day, over all its bands *)
day_sessions(day) ==
  UNION {{<<k[2], i>> : i \in DOMAIN scheduled_slots[k]} :
         k \in {x \in DOMAIN scheduled_slots : x[1] = day}}

session_at(day, p) == scheduled_slots[<<day, p[1]>>][p[2]]

(* ----------------------- resource state tracker ----------------------- *)
is_slot_available_room_only(day, time_slot, faculty, room) ==
  <<day, time_slot>> \notin room_schedule[room]

is_slot_available_faculty_only(day, time_slot, faculty, room) ==
  <<day, time_slot>> \notin faculty_schedule[faculty]

(* the test without the global slot usage *)
is_slot_available_in_parallel(day, time_slot, faculty, room) ==
  LET slot_key == <<day, time_slot>>
  IN IF slot_key \in faculty_schedule[faculty] THEN FALSE
     ELSE IF slot_key \in room_schedule[room] THEN FALSE
     ELSE TRUE

is_slot_available(day, time_slot, faculty, room) ==
  LET slot_key == <<day, time_slot>>
  IN IF ~allow_parallel /\ slot_key \in global_slot_usage THEN FALSE
     ELSE IF slot_key \in faculty_schedule[faculty] THEN FALSE
     ELSE IF slot_key \in room_schedule[room] THEN FALSE
     ELSE TRUE

has_student_conflict(day, time_slot, course_name) ==
  LET slot_key == <<day, time_slot>>
  IN \E existing_course \in slot_courses(slot_key) :
       courses_conflict(str_lower(course_name), str_lower(existing_course))

(* the filter both placement routines apply to a candidate slot *)
SlotPasses_NoCheck(day, time_slot, faculty, room, course) == TRUE

SlotPasses(day, time_slot, faculty, room, course) ==
  /\ is_slot_available(day, time_slot, faculty, room)
  /\ ~has_student_conflict(day, time_slot, course)

(* -------------------- soft-constraint penalty scoring ------------------ *)
count_day_sessions(day) == Cardinality(day_sessions(day))

lecture_neighbours(course_name, day, time_slot) ==
  Cardinality({i \in DOMAIN slot_sessions(<<day, time_slot>>) :
     LET session == slot_sessions(<<day, time_slot>>)[i]
     IN /\ base_course_of(session.course) = base_course_of(course_name)
        /\ session.session_type = "lecture"
        /\ name_has_lecture(course_name)})

check_consecutive_same_course(course_name, day, time_slot) ==
  LET time_idx == get_time_index(time_slot)
      before == IF time_idx > 0
                THEN lecture_neighbours(course_name, day, time_slots[time_idx])
                ELSE 0
      after == IF time_idx < Len(time_slots) - 1
               THEN lecture_neighbours(course_name, day, time_slots[time_idx + 2])
               ELSE 0
  IN before + after

check_multiple_course_per_day(base_course, day) ==
  IF \E p \in day_sessions(day) : base_course_of(session_at(day, p).course) = base_course
  THEN 1 ELSE 0

check_lecture_lab_same_day(base_course, day, current_course) ==
  LET current_is_lecture == name_has_lecture(current_course)
  IN IF \E p \in day_sessions(day) :
          /\ base_course_of(session_at(day, p).course) = base_course
          /\ IF current_is_lecture
             THEN name_has_lab(session_at(day, p).course)
             ELSE name_has_lecture(session_at(day, p).course)
     THEN 1 ELSE 0

check_daily_imbalance ==
  LET day_loads == {count_day_sessions(d) : d \in DaySet}
  IN IF SetMax(day_loads) - SetMin(day_loads) > 3 THEN 1 ELSE 0

(* if time_slot == '17:00-18:00' *)
is_very_late(time_slot) == time_slot = "17:00-18:00"

(* elif time_slot >= '17:00-18:00' *)
is_late(time_slot) ==
  ~is_very_late(time_slot) /\ time_str_ge(time_slot, "17:00-18:00")

(* the late-lecture term of a candidate's score *)
late_lecture_penalty(is_lecture, time_slot) ==
  IF is_lecture
  THEN IF is_very_late(time_slot) THEN PENALTY_VERY_LATE_LECTURE
       ELSE IF is_late(time_slot) THEN PENALTY_LATE_LECTURE
       ELSE 0
  ELSE 0

calculate_soft_constraint_penalty(course_name, day, time_slot) ==
  LET base_course == base_course_of(course_name)
      is_lecture == name_has_lecture(course_name)
  IN  check_consecutive_same_course(course_name, day, time_slot)
          * PENALTY_CONSECUTIVE_SAME_COURSE
    + check_multiple_course_per_day(base_course, day)
          * PENALTY_MULTIPLE_COURSE_PER_DAY
    + late_lecture_penalty(is_lecture, time_slot)
    + (IF count_day_sessions(day) >= 7 THEN PENALTY_OVERLOADED_DAY ELSE 0)
    + (IF time_slot = "12:00-13:00" THEN PENALTY_LUNCH_HOUR ELSE 0)
    + (IF base_course \in core_subjects /\ time_str_ge(time_slot, "16:00-17:00")
       THEN PENALTY_CORE_SUBJECT_LATE ELSE 0)
    + (IF check_lecture_lab_same_day(base_course, day, course_name) = 1
       THEN PENALTY_LECTURE_LAB_SAME_DAY ELSE 0)
    + (IF check_daily_imbalance = 1 THEN PENALTY_UNBALANCED_DAYS ELSE 0)

(* ====================== parse_availability_slots ====================== *)
(* The text handed to the parser is a sequence of characters. *)
UpperLetters == <<"A", "B", "C", "D", "E", "F", "G", "H", "I", "J", "K", "L", "M",
                 "N", "O", "P", "Q", "R", "S", "T", "U", "V", "W", "X", "Y", "Z">>
LowerLetters == <<"a", "b", "c", "d", "e", "f", "g", "h", "i", "j", "k", "l", "m",
                 "n", "o", "p", "q", "r", "s", "t", "u", "v", "w", "x", "y", "z">>

(* c.isalpha() *)
is_alpha(c) == c \in Range(UpperLetters) \cup Range(LowerLetters)

(* str.lower() on a sequence of characters *)
lower_char(c) ==
  IF c \in Range(UpperLetters)
  THEN LowerLetters[CHOOSE i \in DOMAIN UpperLetters : UpperLetters[i] = c]
  ELSE c

text_lower(s) == [i \in DOMAIN s |-> lower_char(s[i])]

(* s.split(sep) for a separator of one character *)
RECURSIVE str_split(_, _)
str_split(s, sep) ==
  IF sep \in Range(s)
  THEN <<SubSeq(s, 1, str_index(s, sep) - 1)>>
       \o str_split(SubSeq(s, str_index(s, sep) + 1, Len(s)), sep)
  ELSE <<s>>

(* s.split(): the words between runs of blanks *)
str_words(s) == SelectSeq(str_split(s, " "), LAMBDA w : w # <<>>)

(* sep.join(parts) *)
RECURSIVE str_join(_, _)
str_join(parts, sep) ==
  IF parts = <<>> THEN <<>>
  ELSE IF Len(parts) = 1 THEN parts[1]
  ELSE parts[1] \o <<sep>> \o str_join(Tail(parts), sep)

all_time_slots_eight == SubSeq(time_slots, 1, 8)

all_time_slots == time_slots

(* self.slot_mapping: the band of a legacy slot digit *)
slot_mapping ==
  [d \in {"1", "2", "3", "4", "5", "6", "7", "8", "9"} |->
     CASE d = "1" -> "09:00-10:00" [] d = "2" -> "10:00-11:00"
       [] d = "3" -> "11:00-12:00" [] d = "4" -> "12:00-13:00"
       [] d = "5" -> "13:00-14:00" [] d = "6" -> "14:00-15:00"
       [] d = "7" -> "15:00-16:00" [] d = "8" -> "16:00-17:00"
       [] d = "9" -> "17:00-18:00"]

(* the dict day_mapping of the parser, as its items *)
day_mapping ==
  << [key |-> <<"m", "o", "n", "d", "a", "y">>, value |-> "Monday"],
     [key |-> <<"t", "u", "e", "s", "d", "a", "y">>, value |-> "Tuesday"],
     [key |-> <<"w", "e", "d", "n", "e", "s", "d", "a", "y">>, value |-> "Wednesday"],
     [key |-> <<"t", "h", "u", "r", "s", "d", "a", "y">>, value |-> "Thursday"],
     [key |-> <<"f", "r", "i", "d", "a", "y">>, value |-> "Friday"],
     [key |-> <<"m", "o", "n">>, value |-> "Monday"],
     [key |-> <<"t", "u", "e">>, value |-> "Tuesday"],
     [key |-> <<"w", "e", "d">>, value |-> "Wednesday"],
     [key |-> <<"t", "h", "u">>, value |-> "Thursday"],
     [key |-> <<"f", "r", "i">>, value |-> "Friday"] >>

(* the dict time_map of the parser, as its items *)
time_map ==
  << [key |-> <<"9", "a", "m">>, value |-> "09:00-10:00"],
     [key |-> <<"1", "0", "a", "m">>, value |-> "10:00-11:00"],
     [key |-> <<"1", "1", "a", "m">>, value |-> "11:00-12:00"],
     [key |-> <<"1", "2", "p", "m">>, value |-> "12:00-13:00"],
     [key |-> <<"2", "p", "m">>, value |-> "14:00-15:00"],
     [key |-> <<"3", "p", "m">>, value |-> "15:00-16:00"],
     [key |-> <<"4", "p", "m">>, value |-> "16:00-17:00"],
     [key |-> <<"5", "p", "m">>, value |-> "17:00-18:00"] >>

dict_has(items, key) == \E i \in DOMAIN items : items[i].key = key

dict_get(items, key) == items[CHOOSE i \in DOMAIN items : items[i].key = key].value

(* for time_slot in all_time_slots: slots.append((day, time_slot)) *)
whole_day(day) == [i \in DOMAIN all_time_slots |-> <<day, all_time_slots[i]>>]

(* one pass of the loop body, slot = the token as split off: the slot keys
   it appends *)
token_slots(raw) ==
  LET slot == text_lower(str_strip(raw))
  IN IF slot = <<>> THEN <<>>
     ELSE IF dict_has(day_mapping, slot) THEN whole_day(dict_get(day_mapping, slot))
     ELSE IF " " \in Range(slot)
     THEN LET parts == str_words(slot)
              day_part == parts[1]
              time_part == str_join(Tail(parts), " ")
          IN IF dict_has(day_mapping, day_part)
             THEN IF dict_has(time_map, time_part)
                  THEN << <<dict_get(day_mapping, day_part), dict_get(time_map, time_part)>> >>
                  ELSE whole_day(dict_get(day_mapping, day_part))
             ELSE <<>>
     ELSE IF Len(slot) <= 4 /\ \E i \in DOMAIN slot : is_alpha(slot[i])
     THEN LET day_part == SelectSeq(slot, is_alpha)
          IN IF dict_has(day_mapping, day_part)
             THEN whole_day(dict_get(day_mapping, day_part))
             ELSE <<>>
     ELSE <<>>

(* the loop, left at the first token that yields nothing *)
RECURSIVE tokens_slots_stop_at_invalid(_)
tokens_slots_stop_at_invalid(tokens) ==
  IF tokens = <<>> THEN <<>>
  ELSE IF token_slots(Head(tokens)) = <<>> THEN <<>>
  ELSE token_slots(Head(tokens)) \o tokens_slots_stop_at_invalid(Tail(tokens))

(* for slot in availability_str.split(','): ... *)
RECURSIVE tokens_slots(_)
tokens_slots(tokens) ==
  IF tokens = <<>> THEN <<>>
  ELSE token_slots(Head(tokens)) \o tokens_slots(Tail(tokens))

(* the argument is a string (is_list FALSE, value its characters) or a list
   of strings (is_list TRUE, value the list) *)
availability_str(data) ==
  IF data.is_list THEN str_join(data.value, ",") ELSE data.value

parse_availability_slots(data) ==
  IF data.value = <<>> THEN <<>>
  ELSE tokens_slots(str_split(availability_str(data), ","))

(* ------------------------------ the input ----------------------------- *)
(* The course records a run can be given.  available_slots is the list the
   availability resolver produced for the course: it is a list, it may be
   empty, unordered, and may name a slot twice. *)
Catalogue ==
  << [name |-> <<"Data Structures", " ", "(", "Lecture", ")">>,
      faculty |-> "Dr. Smith", room |-> "Hall 102", session_type |-> "lecture",
      available_slots |-> << <<"Monday", "09:00-10:00">>, <<"Monday", "10:00-11:00">>,
                             <<"Monday", "10:00-11:00">>, <<"Tuesday", "09:00-10:00">> >>],
     [name |-> <<"algorithms">>,
      faculty |-> "Dr. Jones", room |-> "Lab 1", session_type |-> "lecture",
      available_slots |-> << <<"Monday", "09:00-10:00">> >>],
     [name |-> <<"Data Structures", " ", "(", "Lab", ")">>,
      faculty |-> "Dr. Smith", room |-> "Lab 1", session_type |-> "lab",
      available_slots |-> << <<"Monday", "10:00-11:00">>, <<"Monday", "09:00-10:00">>,
                             <<"Monday", "11:00-12:00">>, <<"Tuesday", "09:00-10:00">>,
                             <<"Tuesday", "11:00-12:00">> >>],
     [name |-> <<"physics">>,
      faculty |-> "Dr. Brown", room |-> "Hall 102", session_type |-> "lecture",
      available_slots |-> << >>],
     [name |-> <<"web development", " ", "(", "lab", ")">>,
      faculty |-> "Dr. Jones", room |-> "Hall 102", session_type |-> "lab",
      available_slots |-> << <<"Monday", "09:00-10:00">>, <<"Monday", "11:00-12:00">>,
                             <<"Wednesday", "12:00-13:00">>, <<"Wednesday", "14:00-15:00">> >>],
     [name |-> <<"Mathematics", " ", "(", "Lecture", ")">>,
      faculty |-> "Dr. Brown", room |-> "Hall 201", session_type |-> "lecture",
      available_slots |-> << <<"Friday", "16:00-17:00">>, <<"Friday", "17:00-18:00">>,
                             <<"Monday", "09:00-10:00">> >>],
     [name |-> <<"chemistry">>,
      faculty |-> "Dr. Brown", room |-> "Lab 1", session_type |-> "lecture",
      available_slots |-> << <<"Monday", "09:00-10:00">>,
                             <<"Monday", "14:00-15:00">> >>] >>

CourseNames == {Catalogue[i].name : i \in DOMAIN Catalogue}
Faculties == {Catalogue[i].faculty : i \in DOMAIN Catalogue}
Rooms == {Catalogue[i].room : i \in DOMAIN Catalogue}

(* the lists of 1..MaxCourses distinct catalogue entries, in the order of
   the catalogue or in the reverse order *)
CourseLists ==
  UNION {{q \in [1..n -> DOMAIN Catalogue] :
            \/ \A i \in 1..(n - 1) : q[i] < q[i + 1]
            \/ \A i \in 1..(n - 1) : q[i] > q[i + 1]} :
         n \in 1..MaxCourses}

(* one entry of courses_info: a catalogue record with its weekly_count *)
CourseInfo(c, weekly) ==
  [name |-> Catalogue[c].name, faculty |-> Catalogue[c].faculty,
   room |-> Catalogue[c].room, session_type |-> Catalogue[c].session_type,
   weekly_count |-> weekly, available_slots |-> Catalogue[c].available_slots]

(* --------------------------- list algorithms -------------------------- *)
(* list.sort(key=...) is a stable sort: an element is put behind the
   elements whose key is not greater than its own *)
(* density = weekly / max(1, len(avail)) if len(avail) > 0 else inf, kept as
   the exact fraction num/den, den = 0 standing for inf *)
density_never_infinite(weekly, avail) ==
  [num |-> weekly, den |-> IF Len(avail) > 1 THEN Len(avail) ELSE 1]

density_of(weekly, avail) ==
  IF Len(avail) > 0
  THEN [num |-> weekly, den |-> IF Len(avail) > 1 THEN Len(avail) ELSE 1]
  ELSE [num |-> 1, den |-> 0]

density_greater(a, b) ==
  IF a.den = 0 THEN b.den # 0
  ELSE IF b.den = 0 THEN FALSE
  ELSE a.num * b.den > b.num * a.den

(* key(c) = (-density, len(available_slots)) *)
priority_less(a, b) ==
  \/ density_greater(a.density, b.density)
  \/ /\ ~density_greater(b.density, a.density)
     /\ Len(a.available_slots) < Len(b.available_slots)

RECURSIVE insert_by_priority(_, _)
insert_by_priority(sorted, x) ==
  IF sorted = <<>> THEN <<x>>
  ELSE IF priority_less(x, Head(sorted)) THEN <<x>> \o sorted
  ELSE <<Head(sorted)>> \o insert_by_priority(Tail(sorted), x)

RECURSIVE sort_by_priority(_)
sort_by_priority(s) ==
  IF s = <<>> THEN <<>>
  ELSE insert_by_priority(sort_by_priority(SubSeq(s, 1, Len(s) - 1)), s[Len(s)])

RECURSIVE insert_by_time(_, _)
insert_by_time(sorted, x) ==
  IF sorted = <<>> THEN <<x>>
  ELSE IF get_time_index(x) < get_time_index(Head(sorted)) THEN <<x>> \o sorted
  ELSE <<Head(sorted)>> \o insert_by_time(Tail(sorted), x)

RECURSIVE sort_by_time(_)
sort_by_time(s) ==
  IF s = <<>> THEN <<>>
  ELSE insert_by_time(sort_by_time(SubSeq(s, 1, Len(s) - 1)), s[Len(s)])

(* isinstance(available_slots[0], str): the record carries the text of the
   caller, not a list of slot keys *)
slots_are_str(info) == "slots_are_str" \in DOMAIN info

(* info.get('weekly_count', info.get('duration', 1)) *)
weekly_of(info) ==
  IF "weekly_count" \in DOMAIN info THEN info.weekly_count
  ELSE IF "duration" \in DOMAIN info THEN info.duration
  ELSE 1

(* info.get('session_type', 'lecture') *)
session_type_of(info) ==
  IF "session_type" \in DOMAIN info THEN info.session_type ELSE "lecture"

(* an empty text is falsy and is kept as it is: it has length 0 *)
avail_of(info) ==
  IF slots_are_str(info)
  THEN parse_availability_slots(info.available_slots)
  ELSE info.available_slots

build_state(info) ==
  [name |-> info.name, faculty |-> info.faculty, room |-> info.room,
   session_type |-> session_type_of(info), weekly_target |-> weekly_of(info),
   remaining |-> weekly_of(info), available_slots |-> avail_of(info),
   density |-> density_of(weekly_of(info), avail_of(info))]

expected_weekly_sessions(info) == weekly_of(info)

expected_weekly_of(info) ==
  IF session_type_of(info) = "lab"
  THEN weekly_of(info) * default_lab_session_length
  ELSE weekly_of(info)

build_course_states(courses_info) ==
  sort_by_priority([i \in DOMAIN courses_info |-> build_state(courses_info[i])])

(* ------------------------- placement: lectures ------------------------ *)
valid_lecture_slots(state) ==
  {slot \in Range(state.available_slots) :
     SlotPasses(slot[1], slot[2], state.faculty, state.room, state.name)}

(* the score tuple without its last, random component *)
placement_score_by_time_only(state, day, time_slot) ==
  <<get_time_preference(time_slot)>>

placement_score(state, day, time_slot) ==
  <<day_load[day], faculty_day_load[<<state.faculty, day>>],
    get_time_preference(time_slot),
    calculate_soft_constraint_penalty(state.name, day, time_slot)>>

(* valid.sort(key=score); valid[0]: random.uniform(0, 0.1) is the last
   component of the key, so any slot that is minimal on the other four can
   come first *)
best_lecture_slots(state) ==
  LET valid == valid_lecture_slots(state)
  IN {s \in valid : \A o \in valid :
        ~TupleLess(placement_score(state, o[1], o[2]),
                   placement_score(state, s[1], s[2]))}

(* the units a lecture attempt can commit: lists of one slot key *)
lecture_units(state) == {<<s>> : s \in best_lecture_slots(state)}

(* ---------------------------- placement: labs ------------------------- *)
block_hours == default_lab_session_length

slots_of_day(avail, day) == SelectSeq(avail, LAMBDA x : x[1] = day)

(* day_slots[day], sorted by the position of the band *)
day_times(avail, day) ==
  sort_by_time([i \in DOMAIN slots_of_day(avail, day) |-> slots_of_day(avail, day)[i][2]])

segment_any_order(segment) == TRUE

segment_is_consecutive(segment) ==
  LET base == get_time_index(segment[1])
  IN \A j \in 0..(block_hours - 1) : get_time_index(segment[j + 1]) = base + j

valid_blocks(state) ==
  LET avail == state.available_slots
      all_segments ==
        UNION {{<<d, SubSeq(day_times(avail, d), i, i + block_hours - 1)>> :
                  i \in 1..(Len(day_times(avail, d)) - block_hours + 1)} :
               d \in {avail[i][1] : i \in DOMAIN avail}}
  IN {b \in all_segments :
        /\ segment_is_consecutive(b[2])
        /\ \A j \in DOMAIN b[2] :
             SlotPasses(b[1], b[2][j], state.faculty, state.room, state.name)}

best_blocks(state) ==
  LET valid == valid_blocks(state)
  IN {b \in valid : \A o \in valid :
        ~TupleLess(placement_score(state, o[1], o[2][1]),
                   placement_score(state, b[1], b[2][1]))}

(* a lab attempt that books only the first slot of the block *)
lab_units_first_slot_only(state) ==
  {[j \in {1} |-> <<b[1], b[2][j]>>] : b \in best_blocks(state)}

(* the units a lab attempt can commit: the slot keys of one block, in order *)
lab_units(state) ==
  {[j \in DOMAIN b[2] |-> <<b[1], b[2][j]>>] : b \in best_blocks(state)}

(* ------------------------------- commit ------------------------------- *)
times_in(slots, k) == Cardinality({i \in DOMAIN slots : slots[i] = k})

(* a commit that keeps only the slot keys of the new unit *)
Commit_keeps_only_new(state, slots, duration, session_type) ==
  LET entry == [course |-> state.name, faculty |-> state.faculty,
                room |-> state.room, duration |-> duration,
                session_type |-> session_type]
  IN
  /\ faculty_schedule' =
       [faculty_schedule EXCEPT ![state.faculty] = @ \cup Range(slots)]
  /\ room_schedule' = [room_schedule EXCEPT ![state.room] = @ \cup Range(slots)]
  /\ global_slot_usage' =
       IF ~allow_parallel THEN global_slot_usage \cup Range(slots)
       ELSE global_slot_usage
  /\ day_load' =
       [d \in DaySet |->
          day_load[d] + Cardinality({i \in DOMAIN slots : slots[i][1] = d})]
  /\ faculty_day_load' =
       [fd \in Faculties \X DaySet |->
          IF fd[1] = state.faculty
          THEN faculty_day_load[fd] + Cardinality({i \in DOMAIN slots : slots[i][1] = fd[2]})
          ELSE faculty_day_load[fd]]
  /\ course_schedule' =
       [k \in DOMAIN course_schedule \cup Range(slots) |->
          IF k \in Range(slots) THEN slot_courses(k) \cup {state.name}
          ELSE course_schedule[k]]
  /\ scheduled_slots' =
       [k \in Range(slots) |->
          slot_sessions(k) \o [i \in 1..times_in(slots, k) |-> entry]]
  /\ actual_weekly' = [actual_weekly EXCEPT ![state.name] = @ + Len(slots)]

(* a commit that leaves the day load uncounted *)
Commit_day_load_uncounted(state, slots, duration, session_type) ==
  LET entry == [course |-> state.name, faculty |-> state.faculty,
                room |-> state.room, duration |-> duration,
                session_type |-> session_type]
  IN
  /\ faculty_schedule' =
       [faculty_schedule EXCEPT ![state.faculty] = @ \cup Range(slots)]
  /\ room_schedule' = [room_schedule EXCEPT ![state.room] = @ \cup Range(slots)]
  /\ global_slot_usage' =
       IF ~allow_parallel THEN global_slot_usage \cup Range(slots)
       ELSE global_slot_usage
  /\ day_load' = day_load
  /\ faculty_day_load' =
       [fd \in Faculties \X DaySet |->
          IF fd[1] = state.faculty
          THEN faculty_day_load[fd] + Cardinality({i \in DOMAIN slots : slots[i][1] = fd[2]})
          ELSE faculty_day_load[fd]]
  /\ course_schedule' =
       [k \in DOMAIN course_schedule \cup Range(slots) |->
          IF k \in Range(slots) THEN slot_courses(k) \cup {state.name}
          ELSE course_schedule[k]]
  /\ scheduled_slots' =
       [k \in DOMAIN scheduled_slots \cup Range(slots) |->
          slot_sessions(k) \o [i \in 1..times_in(slots, k) |-> entry]]
  /\ actual_weekly' = [actual_weekly EXCEPT ![state.name] = @ + Len(slots)]

(* the bookkeeping both placement routines do for every slot of a unit *)
Commit(state, slots, duration, session_type) ==
  LET entry == [course |-> state.name, faculty |-> state.faculty,
                room |-> state.room, duration |-> duration,
                session_type |-> session_type]
  IN
  /\ faculty_schedule' =
       [faculty_schedule EXCEPT ![state.faculty] = @ \cup Range(slots)]
  /\ room_schedule' = [room_schedule EXCEPT ![state.room] = @ \cup Range(slots)]
  /\ global_slot_usage' =
       IF ~allow_parallel THEN global_slot_usage \cup Range(slots)
       ELSE global_slot_usage
  /\ day_load' =
       [d \in DaySet |->
          day_load[d] + Cardinality({i \in DOMAIN slots : slots[i][1] = d})]
  /\ faculty_day_load' =
       [fd \in Faculties \X DaySet |->
          IF fd[1] = state.faculty
          THEN faculty_day_load[fd] + Cardinality({i \in DOMAIN slots : slots[i][1] = fd[2]})
          ELSE faculty_day_load[fd]]
  /\ course_schedule' =
       [k \in DOMAIN course_schedule \cup Range(slots) |->
          IF k \in Range(slots) THEN slot_courses(k) \cup {state.name}
          ELSE course_schedule[k]]
  /\ scheduled_slots' =
       [k \in DOMAIN scheduled_slots \cup Range(slots) |->
          slot_sessions(k) \o [i \in 1..times_in(slots, k) |-> entry]]
  /\ actual_weekly' = [actual_weekly EXCEPT ![state.name] = @ + Len(slots)]

tracker_vars == <<scheduled_slots, faculty_schedule, room_schedule, course_schedule,
                  global_slot_usage, day_load, faculty_day_load, actual_weekly>>

(* ------------------------ repeating a previous call ------------------- *)
(* In a second call the random tie-break is taken to fall as in the first
   call whenever the unit the first call committed at this point is among
   the units the second call can commit. *)
can_repeat(state, units) ==
  /\ Len(log) < Len(prev_log)
  /\ prev_log[Len(log) + 1].course = state.name
  /\ prev_log[Len(log) + 1].slots \in units

unit_choices(state, units) ==
  IF run > 1 /\ can_repeat(state, units)
  THEN {prev_log[Len(log) + 1].slots}
  ELSE units

(* ----------------------------- solve_timetable ------------------------ *)
Inputs ==
  UNION {{[i \in DOMAIN q |-> CourseInfo(q[i], w[i])] : w \in [DOMAIN q -> 1..MaxWeekly]} :
         q \in CourseLists}

(* the solver object after __init__, no call made yet *)
Constructed ==
  /\ scheduled_slots = EmptyMap
  /\ faculty_schedule = [f \in Faculties |-> {}]
  /\ room_schedule = [r \in Rooms |-> {}]
  /\ course_schedule = EmptyMap
  /\ global_slot_usage = {}
  /\ day_load = [d \in DaySet |-> 0]
  /\ faculty_day_load = [fd \in Faculties \X DaySet |-> 0]
  /\ MAX_FACULTY_SESSIONS_PER_DAY = INITIAL_FACULTY_CAP
  /\ expected_weekly = EmptyMap
  /\ actual_weekly = [n \in CourseNames |-> 0]
  /\ failure_reasons = EmptyMap
  /\ course_states = <<>>
  /\ round_idx = 0
  /\ retry = 0
  /\ progress = FALSE
  /\ idx = 1
  /\ conflicts = [faculty_conflicts |-> {}, room_conflicts |-> {},
                  student_conflicts |-> {}, total_conflicts |-> 0]
  /\ run = 1
  /\ log = <<>>
  /\ prev_log = <<>>
  /\ prev_timetable = [slots |-> EmptyMap]
  /\ prev_removed = {}
  /\ replay_ok = TRUE

NoParse == availability_data = <<>> /\ parsed_slots = <<>>

(* ORToolsTimetableSolver.__init__: no courses, no solver run yet *)
NoExact == exact_courses = <<>> /\ status = "UNKNOWN" /\ solution = {}

(* main.py is not run and no call was made before *)
(* no TimetableSolver is constructed *)
NoLegacy == schedule = EmptyMap /\ sorted_courses = <<>>

NoMain ==
  /\ ORTOOLS_AVAILABLE = FALSE /\ prev_training_data = <<>> /\ courses_data = <<>>
  /\ NoLegacy

Init ==
  /\ training_data \in Inputs
  /\ pc = "idle"
  /\ timetable = [slots |-> EmptyMap]
  /\ Constructed
  /\ NoParse
  /\ NoExact
  /\ NoMain
  /\ has_metadata = TRUE

kept_global_slot_usage == global_slot_usage

(* self.global_slot_usage.clear() *)
cleared_global_slot_usage == {}

(* print(... self.training_data['metadata']['total_courses'] ...), then
   reset state, build the course states, sort them by priority *)
SolveStart ==
  /\ pc = "idle"
  /\ has_metadata
  /\ scheduled_slots' = EmptyMap
  /\ faculty_schedule' = [f \in Faculties |-> {}]
  /\ room_schedule' = [r \in Rooms |-> {}]
  /\ course_schedule' = EmptyMap
  /\ global_slot_usage' = cleared_global_slot_usage
  /\ day_load' = [d \in DaySet |-> 0]
  /\ faculty_day_load' = [fd \in Faculties \X DaySet |-> 0]
  /\ expected_weekly' =
       [n \in {training_data[i].name : i \in DOMAIN training_data} |->
          expected_weekly_of(
            training_data[CHOOSE i \in DOMAIN training_data : training_data[i].name = n])]
  /\ actual_weekly' = [n \in CourseNames |-> 0]
  /\ failure_reasons' = EmptyMap
  /\ course_states' = build_course_states(training_data)
  /\ round_idx' = 0
  /\ log' = <<>>
  /\ pc' = "main_head"
  /\ UNCHANGED <<training_data, MAX_FACULTY_SESSIONS_PER_DAY, retry, progress, idx,
                 timetable, conflicts, run, prev_log, prev_timetable, prev_removed,
                 replay_ok>>
  /\ UNCHANGED other_vars

more_rounds_once == round_idx < 1

(* The condition of the main loop: while round_idx < MAX_ROUNDS *)
more_rounds == round_idx < MAX_ROUNDS

(* while round_idx < MAX_ROUNDS: round_idx += 1; progress = False *)
MainHead ==
  /\ pc = "main_head"
  /\ IF more_rounds
     THEN /\ round_idx' = round_idx + 1
          /\ progress' = FALSE
          /\ idx' = 1
          /\ pc' = "main_for"
     ELSE /\ pc' = "mark"
          /\ UNCHANGED <<round_idx, progress, idx>>
  /\ UNCHANGED <<training_data, tracker_vars, MAX_FACULTY_SESSIONS_PER_DAY,
                 expected_weekly, failure_reasons, course_states, retry, timetable,
                 conflicts, run, log, prev_log, prev_timetable, prev_removed,
                 replay_ok>>
  /\ UNCHANGED other_vars

in_round == pc \in {"main_for", "relax_for"} /\ idx <= Len(course_states)

never_skip(state) == FALSE

(* if state['remaining'] <= 0: continue *)
skip_course(state) == state.remaining <= 0

CourseSkip ==
  /\ in_round
  /\ skip_course(course_states[idx])
  /\ idx' = idx + 1
  /\ UNCHANGED <<training_data, tracker_vars, MAX_FACULTY_SESSIONS_PER_DAY,
                 expected_weekly, failure_reasons, course_states, pc, round_idx,
                 retry, progress, timetable, conflicts, run, log, prev_log,
                 prev_timetable, prev_removed, replay_ok>>
  /\ UNCHANGED other_vars

round_ends_on_failure(units) ==
  IF units = {} THEN Len(course_states) + 1 ELSE idx + 1

(* the for loop goes on to the next course whether the attempt placed a
   unit or not *)
next_course(units) == idx + 1

(* one call of a placement routine from the round loop: units is the set of
   units the routine can commit in the current state (empty: it returns
   False) *)
AttemptUnit(state, units, duration, session_type) ==
  /\ IF units = {}
     THEN UNCHANGED <<tracker_vars, course_states, progress, log, replay_ok>>
     ELSE /\ \E u \in unit_choices(state, units) :
               /\ Commit(state, u, duration, session_type)
               /\ log' = Append(log, [course |-> state.name, slots |-> u])
          /\ course_states' = [course_states EXCEPT ![idx].remaining = @ - 1]
          /\ progress' = TRUE
          /\ replay_ok' = (replay_ok /\ (run = 1 \/ can_repeat(state, units)))
  /\ idx' = next_course(units)
  /\ UNCHANGED <<training_data, MAX_FACULTY_SESSIONS_PER_DAY, expected_weekly,
                 failure_reasons, pc, round_idx, retry, timetable, conflicts, run,
                 prev_log, prev_timetable, prev_removed>>
  /\ UNCHANGED other_vars

LectureAttempt ==
  /\ in_round
  /\ ~skip_course(course_states[idx])
  /\ course_states[idx].session_type # "lab"
  /\ AttemptUnit(course_states[idx], lecture_units(course_states[idx]), 1, "lecture")

LabAttempt ==
  /\ in_round
  /\ ~skip_course(course_states[idx])
  /\ course_states[idx].session_type = "lab"
  /\ AttemptUnit(course_states[idx], lab_units(course_states[idx]), block_hours, "lab")

stop_round_never == FALSE

(* if not progress: break *)
stop_round == ~progress

(* end of the for loop of a main round: if not progress: break *)
MainRoundEnd ==
  /\ pc = "main_for"
  /\ idx > Len(course_states)
  /\ pc' = IF stop_round THEN "mark" ELSE "main_head"
  /\ UNCHANGED <<training_data, tracker_vars, MAX_FACULTY_SESSIONS_PER_DAY,
                 expected_weekly, failure_reasons, course_states, round_idx, retry,
                 progress, idx, timetable, conflicts, run, log, prev_log,
                 prev_timetable, prev_removed, replay_ok>>
  /\ UNCHANGED other_vars

(* if name not in self.failure_reasons: self.failure_reasons[name] = reason *)
record_reason_if_present(reasons, name, reason) ==
  IF name \in DOMAIN reasons THEN Put(reasons, name, reason) ELSE reasons

record_reason(reasons, name, reason) ==
  IF name \notin DOMAIN reasons THEN Put(reasons, name, reason) ELSE reasons

map_get(map, k, default) == IF k \in DOMAIN map THEN map[k] ELSE default

(* f'WEEKLY_DEFICIT_{scheduled}/{expected}' and its two relatives, kept as
   the code and the two numbers *)
reason_of(code, actual, expected) ==
  [code |-> code, actual |-> actual, expected |-> expected]

RECURSIVE mark_deficits(_, _)
mark_deficits(reasons, states) ==
  IF states = <<>> THEN reasons
  ELSE LET state == Head(states)
           marked == IF state.remaining > 0
                     THEN record_reason(reasons, state.name,
                            reason_of("WEEKLY_DEFICIT", actual_weekly[state.name],
                                      map_get(expected_weekly, state.name, 0)))
                     ELSE reasons
       IN mark_deficits(marked, Tail(states))

unsatisfied == {i \in DOMAIN course_states : course_states[i].remaining > 0}

(* mark deficits; decide on the emergency relaxation *)
MarkDeficits ==
  /\ pc = "mark"
  /\ failure_reasons' = mark_deficits(failure_reasons, course_states)
  /\ IF unsatisfied # {} /\ Cardinality(unsatisfied) <= MAX_RELAX_DEFICITS
     THEN /\ MAX_FACULTY_SESSIONS_PER_DAY' = RELAXED_FACULTY_CAP
          /\ retry' = 0
          /\ pc' = "relax_head"
     ELSE /\ pc' = "finish"
          /\ UNCHANGED <<MAX_FACULTY_SESSIONS_PER_DAY, retry>>
  /\ UNCHANGED <<training_data, tracker_vars, expected_weekly, course_states,
                 round_idx, progress, idx, timetable, conflicts, run, log, prev_log,
                 prev_timetable, prev_removed, replay_ok>>
  /\ UNCHANGED other_vars

(* for retry in range(retry_rounds): progress = False *)
RelaxHead ==
  /\ pc = "relax_head"
  /\ IF retry < retry_rounds
     THEN /\ progress' = FALSE
          /\ idx' = 1
          /\ pc' = "relax_for"
     ELSE /\ pc' = "finish"
          /\ UNCHANGED <<progress, idx>>
  /\ UNCHANGED <<training_data, tracker_vars, MAX_FACULTY_SESSIONS_PER_DAY,
                 expected_weekly, failure_reasons, course_states, round_idx, retry,
                 timetable, conflicts, run, log, prev_log, prev_timetable,
                 prev_removed, replay_ok>>
  /\ UNCHANGED other_vars

(* end of the for loop of a relaxation round: if not progress: break *)
RelaxRoundEnd ==
  /\ pc = "relax_for"
  /\ idx > Len(course_states)
  /\ IF stop_round
     THEN pc' = "finish" /\ retry' = retry
     ELSE pc' = "relax_head" /\ retry' = retry + 1
  /\ UNCHANGED <<training_data, tracker_vars, MAX_FACULTY_SESSIONS_PER_DAY,
                 expected_weekly, failure_reasons, course_states, round_idx,
                 progress, idx, timetable, conflicts, run, log, prev_log,
                 prev_timetable, prev_removed, replay_ok>>
  /\ UNCHANGED other_vars

RECURSIVE post_validate_weekly_counts(_, _)
post_validate_weekly_counts(reasons, courses) ==
  IF courses = {} THEN reasons
  ELSE LET course == CHOOSE c \in courses : TRUE
           expected == expected_weekly[course]
           actual == map_get(actual_weekly, course, 0)
           checked ==
             IF actual < expected
             THEN record_reason(reasons, course,
                                reason_of("WEEKLY_UNDERFILLED", actual, expected))
             ELSE IF actual > expected
             THEN record_reason(reasons, course,
                                reason_of("WEEKLY_OVERFILLED", actual, expected))
             ELSE reasons
       IN post_validate_weekly_counts(checked, courses \ {course})

(* --------------------- the final penalty report ----------------------- *)
(* 'lecture' in session['session_type'].lower() *)
type_is_lecture(session) == session.session_type = "lecture"

days_scheduled == {k[1] : k \in DOMAIN scheduled_slots}

(* the sessions of the timetable: day and <<band, position>> *)
report_sessions == UNION {{<<d, p>> : p \in day_sessions(d)} : d \in days_scheduled}

(* sorted(day_schedule.keys(), key=self._get_time_index) *)
time_slots_sorted(day) ==
  sort_by_time(SelectSeq(time_slots, LAMBDA t : <<day, t>> \in DOMAIN scheduled_slots))

(* the pairs (current_slot, next_slot) the consecutive check walks over *)
next_band_pairs(day) ==
  [i \in 1..(Len(time_slots_sorted(day)) - 1) |->
     <<time_slots_sorted(day)[i], time_slots_sorted(day)[i + 1]>>]

consecutive_pairs ==
  UNION {UNION {{<<d, pr, a, b>> :
                   a \in DOMAIN scheduled_slots[<<d, pr[1]>>],
                   b \in DOMAIN scheduled_slots[<<d, pr[2]>>]} :
                pr \in Range(next_band_pairs(d))} : d \in days_scheduled}

day_bases(day) == {base_course_of(session_at(day, p).course) : p \in day_sessions(day)}

calculate_final_penalty_score ==
  LET at(x) == session_at(x[1], x[2])
      band(x) == x[2][1]
      consecutive ==
        Cardinality({x \in consecutive_pairs :
           LET current_session == scheduled_slots[<<x[1], x[2][1]>>][x[3]]
               next_session == scheduled_slots[<<x[1], x[2][2]>>][x[4]]
           IN /\ base_course_of(current_session.course) = base_course_of(next_session.course)
              /\ type_is_lecture(current_session)
              /\ type_is_lecture(next_session)}) * PENALTY_CONSECUTIVE_SAME_COURSE
      multiple ==
        Cardinality({<<d, p>> \in report_sessions : TRUE}) * PENALTY_MULTIPLE_COURSE_PER_DAY
        - Cardinality(UNION {{<<d, b>> : b \in day_bases(d)} : d \in days_scheduled})
          * PENALTY_MULTIPLE_COURSE_PER_DAY
      late ==
        Cardinality({x \in report_sessions : type_is_lecture(at(x)) /\ is_late(band(x))})
        * PENALTY_LATE_LECTURE
      very_late ==
        Cardinality({x \in report_sessions : type_is_lecture(at(x)) /\ is_very_late(band(x))})
        * PENALTY_VERY_LATE_LECTURE
      overloaded ==
        Cardinality({d \in days_scheduled : count_day_sessions(d) > 7}) * PENALTY_OVERLOADED_DAY
      lunch ==
        Cardinality({x \in report_sessions : band(x) = "12:00-13:00"}) * PENALTY_LUNCH_HOUR
      core_late ==
        Cardinality({x \in report_sessions :
           /\ base_course_of(at(x).course) \in core_subjects
           /\ time_str_ge(band(x), "16:00-17:00")}) * PENALTY_CORE_SUBJECT_LATE
      lecture_lab ==
        Cardinality(UNION {{<<d, b>> : b \in
            {c \in day_bases(d) :
               /\ \E p \in day_sessions(d) :
                    /\ base_course_of(session_at(d, p).course) = c
                    /\ name_has_lecture(session_at(d, p).course)
               /\ \E p \in day_sessions(d) :
                    /\ base_course_of(session_at(d, p).course) = c
                    /\ ~name_has_lecture(session_at(d, p).course)}} :
          d \in days_scheduled}) * PENALTY_LECTURE_LAB_SAME_DAY
      imbalance ==
        IF check_daily_imbalance = 1 THEN PENALTY_UNBALANCED_DAYS ELSE 0
  IN [consecutive_same_course |-> consecutive,
      multiple_course_per_day |-> multiple,
      late_lectures |-> late,
      very_late_lectures |-> very_late,
      overloaded_days |-> overloaded,
      lunch_hour_sessions |-> lunch,
      core_subjects_late |-> core_late,
      lecture_lab_same_day |-> lecture_lab,
      daily_imbalance |-> imbalance,
      total_penalty |-> consecutive + multiple + late + very_late + overloaded + lunch
                        + core_late + lecture_lab + imbalance]

(* timetable = dict(self.scheduled_slots); _post_validate_weekly_counts();
   return timetable *)
Finish ==
  /\ pc = "finish"
  /\ timetable' = [slots |-> scheduled_slots,
                    penalty_analysis |-> calculate_final_penalty_score]
  /\ failure_reasons' = post_validate_weekly_counts(failure_reasons, DOMAIN expected_weekly)
  /\ pc' = "returned"
  /\ UNCHANGED <<training_data, tracker_vars, MAX_FACULTY_SESSIONS_PER_DAY,
                 expected_weekly, course_states, round_idx, retry, progress, idx,
                 conflicts, run, log, prev_log, prev_timetable, prev_removed,
                 replay_ok>>
  /\ UNCHANGED other_vars

(* --------------------------- validate_timetable ----------------------- *)
courses_of_faculty(classes, faculty) ==
  LET hit == SelectSeq(classes, LAMBDA c : c.faculty = faculty)
  IN [i \in DOMAIN hit |-> hit[i].course]

courses_of_room(classes, room) ==
  LET hit == SelectSeq(classes, LAMBDA c : c.room = room)
  IN [i \in DOMAIN hit |-> hit[i].course]

validate_timetable(tt) ==
  LET crowded == {k \in DOMAIN tt.slots : Len(tt.slots[k]) > 1}
      classes(k) == tt.slots[k]
      faculty_duplicates(k) ==
        {classes(k)[i].faculty : i \in
           {i \in DOMAIN classes(k) :
              \E j \in DOMAIN classes(k) :
                 j # i /\ classes(k)[j].faculty = classes(k)[i].faculty}}
      room_duplicates(k) ==
        {classes(k)[i].room : i \in
           {i \in DOMAIN classes(k) :
              \E j \in DOMAIN classes(k) :
                 j # i /\ classes(k)[j].room = classes(k)[i].room}}
      faculty_conflicts ==
        UNION {{[day |-> k[1], time |-> k[2], faculty |-> f,
                 courses |-> courses_of_faculty(classes(k), f)] :
                f \in faculty_duplicates(k)} : k \in crowded}
      room_conflicts ==
        UNION {{[day |-> k[1], time |-> k[2], room |-> r,
                 courses |-> courses_of_room(classes(k), r)] :
                r \in room_duplicates(k)} : k \in crowded}
      student_conflicts ==
        UNION {{[day |-> k[1], time |-> k[2], at |-> p,
                 courses |-> <<classes(k)[p[1]].course, classes(k)[p[2]].course>>,
                 reason |-> "Core curriculum overlap"] :
                p \in {q \in (DOMAIN classes(k)) \X (DOMAIN classes(k)) :
                         /\ q[1] < q[2]
                         /\ courses_conflict(str_lower(classes(k)[q[1]].course),
                                             str_lower(classes(k)[q[2]].course))}} :
               k \in crowded}
  IN [faculty_conflicts |-> faculty_conflicts,
      room_conflicts |-> room_conflicts,
      student_conflicts |-> student_conflicts,
      total_conflicts |-> Cardinality(faculty_conflicts) + Cardinality(room_conflicts)
                          + Cardinality(student_conflicts)]

(* the caller checks the returned timetable:
   conflicts = solver.validate_timetable(timetable) *)
Validate ==
  /\ pc = "returned"
  /\ conflicts' = validate_timetable(timetable)
  /\ pc' = "done"
  /\ UNCHANGED <<training_data, tracker_vars, MAX_FACULTY_SESSIONS_PER_DAY,
                 expected_weekly, failure_reasons, course_states, round_idx, retry,
                 progress, idx, timetable, run, log, prev_log, prev_timetable,
                 prev_removed, replay_ok>>
  /\ UNCHANGED other_vars

Next ==
  \/ SolveStart
  \/ MainHead
  \/ CourseSkip
  \/ LectureAttempt
  \/ LabAttempt
  \/ MainRoundEnd
  \/ MarkDeficits
  \/ RelaxHead
  \/ RelaxRoundEnd
  \/ Finish
  \/ Validate

Spec == Init /\ [][Next]_vars

(* ------------- a second call without the infeasible courses ----------- *)
(* the courses of the finished call that received nothing: they have no
   candidate slot, or every candidate slot was filtered out at each attempt *)
infeasible_courses ==
  {course_states[i].name : i \in
     {i \in DOMAIN course_states : actual_weekly[course_states[i].name] = 0}}

(* the same solver is given the same courses again, some infeasible ones
   left out, and solve_timetable is called a second time *)
SolveAgainWithout ==
  /\ pc = "done"
  /\ run = 1
  /\ \E removed \in SUBSET infeasible_courses :
       /\ removed # {}
       /\ training_data' = SelectSeq(training_data, LAMBDA c : c.name \notin removed)
       /\ prev_removed' = removed
  /\ prev_log' = log
  /\ prev_timetable' = timetable
  /\ run' = 2
  /\ pc' = "idle"
  /\ UNCHANGED <<tracker_vars, MAX_FACULTY_SESSIONS_PER_DAY, expected_weekly,
                 failure_reasons, course_states, round_idx, retry, progress, idx,
                 timetable, conflicts, log, replay_ok>>
  /\ UNCHANGED other_vars

NextTwice == Next \/ SolveAgainWithout

SpecTwice == Init /\ [][NextTwice]_vars

(* =========== solve_timetable on training data set by the caller ======== *)
MaxDuration == 3
MaxCallCourses == 2

(* the text written by the caller, as the string handed to the parser *)
text(chars) == [is_list |-> FALSE, value |-> chars]

(* records as the scripts and the API server write them: the availability
   is text; 'weekly_count' and 'session_type' may be left out *)
CallCatalogue ==
  << [name |-> <<"physics">>, faculty |-> "Dr. Brown", room |-> "Hall 102",
      slots_are_str |-> TRUE,
      available_slots |-> text(<<"m", "o", "n", "d", "a", "y", ",", "w", "e", "d", "n", "e", "s", "d", "a", "y", ",", "f", "r", "i", "d", "a", "y">>)],
     [name |-> <<"chemistry">>, faculty |-> "Dr. Brown", room |-> "Lab 1",
      slots_are_str |-> TRUE,
      available_slots |-> text(<<"m", "o", "n", "d", "a", "y", " ", "9", "a", "m", ",", "m", "o", "n", "d", "a", "y", " ", "1", "0", "a", "m", ",", "w", "e", "d", "n", "e", "s", "d", "a", "y", " ", "5", "p", "m">>)],
     [name |-> <<"Data Structures", " ", "(", "Lab", ")">>,
      faculty |-> "Dr. Smith", room |-> "Lab 1", session_type |-> "lab",
      slots_are_str |-> TRUE,
      available_slots |-> text(<<"m", "o", "n", "d", "a", "y", " ", "9", "a", "m", ",", "m", "o", "n", "d", "a", "y", " ", "1", "0", "a", "m">>)],
     [name |-> <<"algorithms">>, faculty |-> "Dr. Jones", room |-> "Lab 1",
      slots_are_str |-> TRUE,
      available_slots |-> text(<<>>)],
     [name |-> <<"Mathematics", " ", "(", "Lecture", ")">>,
      faculty |-> "Dr. Jones", room |-> "Hall 201",
      slots_are_str |-> TRUE,
      available_slots |-> text(<<"m", "o", "n", "d", "a", "y", " ", "9", "a", "m", ",", "m", "o", "n", "d", "a", "y", " ", "1", "0", "a", "m">>)] >>

CallLists ==
  UNION {{q \in [1..n -> DOMAIN CallCatalogue] :
            \/ \A i \in 1..(n - 1) : q[i] < q[i + 1]
            \/ \A i \in 1..(n - 1) : q[i] > q[i + 1]} :
         n \in 1..MaxCallCourses}

(* a lecture record carries 'duration' only; a lab record carries
   'weekly_count' and the duration 2 the input parser gives a lab *)
CallInfo(c, n) ==
  LET r == CallCatalogue[c]
  IN IF "session_type" \in DOMAIN r
     THEN [name |-> r.name, faculty |-> r.faculty, room |-> r.room,
           session_type |-> r.session_type, weekly_count |-> n,
           duration |-> default_lab_session_length,
           slots_are_str |-> TRUE, available_slots |-> r.available_slots]
     ELSE [name |-> r.name, faculty |-> r.faculty, room |-> r.room,
           duration |-> n,
           slots_are_str |-> TRUE, available_slots |-> r.available_slots]

CallInputs ==
  UNION {{[i \in DOMAIN q |-> CallInfo(q[i], w[i])] : w \in [DOMAIN q -> 1..MaxDuration]} :
         q \in CallLists}

(* solver = SimpleTimetableSolver(); solver.training_data = ... *)
InitCall ==
  /\ training_data \in CallInputs
  /\ has_metadata \in BOOLEAN
  /\ pc = "idle"
  /\ timetable = [slots |-> EmptyMap]
  /\ Constructed
  /\ NoParse
  /\ NoExact
  /\ NoMain

(* the print at the head of solve_timetable reads
   self.training_data['metadata']: without the entry the call ends there
   with a KeyError and nothing is returned *)
SolveRaises ==
  /\ pc = "idle"
  /\ ~has_metadata
  /\ pc' = "KeyError"
  /\ UNCHANGED <<training_data, tracker_vars, MAX_FACULTY_SESSIONS_PER_DAY,
                 expected_weekly, failure_reasons, course_states, round_idx, retry,
                 progress, idx, timetable, conflicts, run, log, prev_log,
                 prev_timetable, prev_removed, replay_ok>>
  /\ UNCHANGED other_vars

NextCall == SolveRaises \/ Next

SpecCall == InitCall /\ [][NextCall]_vars

(* ========== the same records again, one weekly target raised ========== *)
(* the record with its weekly target one higher: 'weekly_count' where the
   record has it, 'duration' where the target is read from there *)
raised(info) ==
  IF "weekly_count" \in DOMAIN info
  THEN [info EXCEPT !.weekly_count = @ + 1]
  ELSE [info EXCEPT !.duration = @ + 1]

MaxRaiseCourses == 2

(* the records of the requests: the courses of CallCatalogue that compete
   for Monday morning, in the order of the catalogue or in the reverse *)
RaiseLists ==
  UNION {{q \in [1..n -> DOMAIN CallCatalogue \ {1}] :
            \/ \A i \in 1..(n - 1) : q[i] < q[i + 1]
            \/ \A i \in 1..(n - 1) : q[i] > q[i + 1]} :
         n \in 1..MaxRaiseCourses}

RaiseInputs ==
  UNION {{[i \in DOMAIN q |-> CallInfo(q[i], w[i])] : w \in [DOMAIN q -> 1..MaxWeekly]} :
         q \in RaiseLists}

InitRaise ==
  /\ training_data \in RaiseInputs
  /\ has_metadata = TRUE
  /\ pc = "idle"
  /\ timetable = [slots |-> EmptyMap]
  /\ Constructed
  /\ NoParse
  /\ NoExact
  /\ NoMain

(* solver.training_data = ... with one target raised; solve_timetable is
   called again and starts by resetting the state of the first call *)
SolveAgainRaised ==
  /\ pc = "done"
  /\ run = 1
  /\ \E c \in DOMAIN training_data :
       /\ weekly_of(training_data[c]) <= MaxWeekly
       /\ training_data' = [training_data EXCEPT ![c] = raised(@)]
  /\ prev_training_data' = training_data
  /\ prev_timetable' = timetable
  /\ run' = 2
  /\ pc' = "idle"
  /\ UNCHANGED <<tracker_vars, MAX_FACULTY_SESSIONS_PER_DAY, expected_weekly,
                 failure_reasons, course_states, round_idx, retry, progress, idx,
                 timetable, conflicts, log, prev_log, prev_removed, replay_ok>>
  /\ UNCHANGED <<availability_data, parsed_slots, exact_vars, has_metadata, courses_data,
                 legacy_vars,
                 ORTOOLS_AVAILABLE>>

(* timetable = solver.solve_timetable() a second time, nothing changed *)
SolveAgain ==
  /\ pc = "done"
  /\ run = 1
  /\ prev_training_data' = training_data
  /\ prev_log' = log
  /\ prev_timetable' = timetable
  /\ run' = 2
  /\ pc' = "idle"
  /\ UNCHANGED <<training_data, tracker_vars, MAX_FACULTY_SESSIONS_PER_DAY,
                 expected_weekly, failure_reasons, course_states, round_idx, retry,
                 progress, idx, timetable, conflicts, log, prev_removed, replay_ok>>
  /\ UNCHANGED <<availability_data, parsed_slots, exact_vars, has_metadata, courses_data,
                 legacy_vars,
                 ORTOOLS_AVAILABLE>>

NextRaise == Next \/ SolveAgainRaised \/ SolveAgain

SpecRaise == InitRaise /\ [][NextRaise]_vars

(* ============ parse_availability_slots called on its own ============== *)
(* ------------------------- the texts parsed --------------------------- *)
(* day words as a caller writes them *)
ValidDayWords == {<<"m", "o", "n", "d", "a", "y">>, <<"M", "o", "n">>, <<"F", "R", "I">>, <<"t", "u", "e">>}

(* words that name no day *)
InvalidDayWords == {<<"f", "u", "n", "d", "a", "y">>, <<"x", "y", "z">>}

DayWords == ValidDayWords \cup InvalidDayWords

(* time words: the eight keys of time_map, three bare hours, and 1pm *)
TimeWords == {<<"9", "a", "m">>, <<"1", "0", "a", "m">>, <<"1", "1", "a", "m">>,
              <<"1", "2", "p", "m">>, <<"2", "p", "m">>, <<"3", "p", "m">>, <<"4", "p", "m">>, <<"5", "p", "m">>,
              <<"9">>, <<"1", "2">>, <<"2">>, <<"1", "p", "m">>}

(* the compact tokens <3-letter-day><digit> *)
CompactTokens == {w \o <<d>> : w \in {<<"M", "o", "n">>, <<"t", "u", "e">>, <<"F", "R", "I">>}, d \in {"1", "2", "9"}}

(* every token tried alone *)
Tokens ==
  DayWords \cup {d \o <<" ">> \o t : d \in DayWords, t \in TimeWords}
  \cup CompactTokens
  \cup {<<>>, <<" ", "F", "r", "i", " ", "5", "p", "m", " ">>, <<"m", "o", "n", " ", " ", "9", "a", "m">>}

(* the tokens combined into longer expressions *)
ListTokens == {<<"m", "o", "n", "d", "a", "y">>, <<"m", "o", "n", "d", "a", "y", " ", "1", "0", "a", "m">>, <<"M", "o", "n", "2">>, <<"f", "u", "n", "d", "a", "y">>,
               <<"x", "y", "z", " ", "9", "a", "m">>, <<"t", "u", "e", " ", "2">>, <<>>}

TokenLists ==
  {<<t>> : t \in Tokens} \cup UNION {[1..n -> ListTokens] : n \in 2..MaxTokens}

(* a string: the tokens written with commas between them *)
StringInputs == {[is_list |-> FALSE, value |-> str_join(l, ",")] : l \in TokenLists}

(* a list of strings *)
ListInputs == {[is_list |-> TRUE, value |-> l] : l \in TokenLists}

InitParse ==
  /\ training_data = <<>>
  /\ pc = "parse"
  /\ timetable = [slots |-> EmptyMap]
  /\ Constructed
  /\ \/ availability_data \in StringInputs
     \/ availability_data \in ListInputs
  /\ parsed_slots = <<>>
  /\ NoExact
  /\ NoMain
  /\ has_metadata = TRUE

(* slots = solver.parse_availability_slots(availability_data) *)
ParseCall ==
  /\ pc = "parse"
  /\ parsed_slots' = parse_availability_slots(availability_data)
  /\ pc' = "parsed"
  /\ UNCHANGED <<training_data, tracker_vars, MAX_FACULTY_SESSIONS_PER_DAY,
                 expected_weekly, failure_reasons, course_states, round_idx, retry,
                 progress, idx, timetable, conflicts, run, log, prev_log,
                 prev_timetable, prev_removed, replay_ok, availability_data,
                 exact_vars, caller_vars>>

NextParse == ParseCall

SpecParse == InitParse /\ [][NextParse]_vars

(* ============== validate_timetable on any timetable ================== *)
(* sessions as a caller can put them into a timetable, whatever produced it *)
SessionKinds ==
  {[course |-> <<"Data Structures", " ", "(", "Lecture", ")">>, faculty |-> "Dr. Smith",
    room |-> "Hall 102", duration |-> 1, session_type |-> "lecture"],
   [course |-> <<"algorithms">>, faculty |-> "Dr. Smith",
    room |-> "Lab 1", duration |-> 1, session_type |-> "lecture"],
   [course |-> <<"algorithms">>, faculty |-> "Dr. Jones",
    room |-> "Hall 102", duration |-> 1, session_type |-> "lecture"],
   [course |-> <<"Data Structures", " ", "(", "Lab", ")">>, faculty |-> "Dr. Jones",
    room |-> "Lab 1", duration |-> 2, session_type |-> "lab"],
   [course |-> <<"physics">>, faculty |-> "Dr. Brown",
    room |-> "Hall 102", duration |-> 1, session_type |-> "lecture"],
   [course |-> <<"web development", " ", "(", "lab", ")">>, faculty |-> "Dr. Brown",
    room |-> "Lab 1", duration |-> 2, session_type |-> "lab"]}

(* the lists of at most MaxSessions sessions one slot key can hold *)
SessionLists == UNION {[1..n -> SessionKinds] : n \in 0..MaxSessions}

(* timetables of two slot keys *)
AnyTimetables ==
  {[slots |-> (<<"Monday", "09:00-10:00">> :> a) @@ (<<"Tuesday", "10:00-11:00">> :> b)] :
     a \in SessionLists, b \in SessionLists}

InitValidate ==
  /\ training_data = <<>>
  /\ pc = "returned"
  /\ timetable \in AnyTimetables
  /\ Constructed
  /\ NoParse
  /\ NoExact
  /\ NoMain
  /\ has_metadata = TRUE

NextValidate == Validate

SpecValidate == InitValidate /\ [][NextValidate]_vars

(* =================== the exact solver (OR-Tools) ====================== *)
(* self.time_slots of ORToolsTimetableSolver: eight bands, no 13:00-14:00 *)
exact_time_slots ==
  <<"09:00-10:00", "10:00-11:00", "11:00-12:00", "12:00-13:00",
    "14:00-15:00", "15:00-16:00", "16:00-17:00", "17:00-18:00">>

(* self.slot_mapping of ORToolsTimetableSolver, as its items *)
exact_slot_mapping ==
  << [key |-> <<"1">>, value |-> "09:00-10:00"], [key |-> <<"2">>, value |-> "10:00-11:00"],
     [key |-> <<"3">>, value |-> "11:00-12:00"], [key |-> <<"4">>, value |-> "12:00-13:00"],
     [key |-> <<"5">>, value |-> "14:00-15:00"], [key |-> <<"6">>, value |-> "15:00-16:00"],
     [key |-> <<"7">>, value |-> "16:00-17:00"], [key |-> <<"8">>, value |-> "17:00-18:00"] >>

(* self.day_mapping of ORToolsTimetableSolver, as its items *)
exact_day_mapping ==
  << [key |-> <<"M", "o", "n">>, value |-> "Monday"],
     [key |-> <<"T", "u", "e">>, value |-> "Tuesday"],
     [key |-> <<"W", "e", "d">>, value |-> "Wednesday"],
     [key |-> <<"T", "h", "u">>, value |-> "Thursday"],
     [key |-> <<"F", "r", "i">>, value |-> "Friday"] >>

(* c.isdigit() *)
is_digit(c) == c \in {"0", "1", "2", "3", "4", "5", "6", "7", "8", "9"}

upper_char(c) ==
  IF c \in Range(LowerLetters)
  THEN UpperLetters[CHOOSE i \in DOMAIN LowerLetters : LowerLetters[i] = c]
  ELSE c

(* str.capitalize(): first character upper case, the rest lower case *)
str_capitalize(s) ==
  [i \in DOMAIN s |-> IF i = 1 THEN upper_char(s[i]) ELSE lower_char(s[i])]

(* list.index(x), counted from 1 *)
list_index(l, x) == CHOOSE i \in DOMAIN l : l[i] = x /\ \A j \in 1..(i - 1) : l[j] # x

(* the (day_idx, time_idx) one token appends, indices counted from 1 *)
exact_token_slots(raw) ==
  LET slot == str_strip(raw)
      day_part == SelectSeq(slot, is_alpha)
      time_part == SelectSeq(slot, is_digit)
  IN IF slot = <<>> THEN <<>>
     ELSE IF /\ dict_has(exact_day_mapping, str_capitalize(day_part))
             /\ dict_has(exact_slot_mapping, time_part)
          THEN << <<list_index(days, dict_get(exact_day_mapping, str_capitalize(day_part))),
                    list_index(exact_time_slots, dict_get(exact_slot_mapping, time_part))>> >>
          ELSE <<>>

RECURSIVE exact_tokens_slots(_)
exact_tokens_slots(tokens) ==
  IF tokens = <<>> THEN <<>>
  ELSE exact_token_slots(Head(tokens)) \o exact_tokens_slots(Tail(tokens))

(* ORToolsTimetableSolver.parse_availability_slots on a string *)
exact_parse_availability_slots(availability) ==
  IF availability = <<>> THEN <<>>
  ELSE exact_tokens_slots(str_split(availability, ","))

course_data(info) ==
  [name |-> info.name, faculty |-> info.faculty, room |-> info.room,
   duration |-> info.duration,
   available_slots |-> exact_parse_availability_slots(info.available_slots.value)]

(* the decision variables: one per course, day and time, as <<c, d, t>> *)
course_vars ==
  {<<c, d, t>> : c \in DOMAIN exact_courses, d \in DOMAIN days, t \in DOMAIN exact_time_slots}

(* constraint 2: the variable of a slot outside available_slots is 0 *)
forced_zero(v) == <<v[2], v[3]>> \notin Range(exact_courses[v[1]].available_slots)

free_vars == {v \in course_vars : ~forced_zero(v)}

(* the count as an upper limit only *)
count_constraint_at_most(sol) ==
  \A c \in DOMAIN exact_courses :
    Cardinality({v \in sol : v[1] = c}) <= exact_courses[c].duration

(* constraint 1: sum(scheduled_slots) == course['duration'] *)
count_constraint(sol) ==
  \A c \in DOMAIN exact_courses :
    Cardinality({v \in sol : v[1] = c}) = exact_courses[c].duration

faculty_list == {exact_courses[c].faculty : c \in DOMAIN exact_courses}

room_list == {exact_courses[c].room : c \in DOMAIN exact_courses}

faculty_constraint_absent(sol) == TRUE

(* constraint 3: sum(faculty_slots) <= 1 *)
faculty_constraint(sol) ==
  \A faculty \in faculty_list : \A d \in DOMAIN days, t \in DOMAIN exact_time_slots :
    Cardinality({v \in sol : /\ exact_courses[v[1]].faculty = faculty
                             /\ v[2] = d /\ v[3] = t}) <= 1

(* constraint 4: sum(room_slots) <= 1 *)
room_constraint(sol) ==
  \A room \in room_list : \A d \in DOMAIN days, t \in DOMAIN exact_time_slots :
    Cardinality({v \in sol : /\ exact_courses[v[1]].room = room
                             /\ v[2] = d /\ v[3] = t}) <= 1

(* the assignments of the variables that satisfy the four constraints, each
   given by the set of its variables with value 1 *)
feasible_solutions ==
  {sol \in SUBSET free_vars :
     count_constraint(sol) /\ faculty_constraint(sol) /\ room_constraint(sol)}

(* self.model.Maximize(sum(total_scheduled)) *)
optimal_solutions ==
  {sol \in feasible_solutions :
     \A other \in feasible_solutions : Cardinality(other) <= Cardinality(sol)}

(* the course records the exact solver is run on; availability is text *)
ExactCatalogue ==
  << [name |-> "Mathematics", faculty |-> "Dr. Mehta", room |-> "Room 101",
      available_slots |-> text(<<"M", "o", "n", "1", ",", "M", "o", "n", "2", ",", "T", "u", "e", "1">>)],
     [name |-> "Physics Lab", faculty |-> "Prof. Sharma", room |-> "Lab 101",
      available_slots |-> text(<<"M", "o", "n", "3", ",", "M", "o", "n", "4">>)],
     [name |-> "Algebra", faculty |-> "Dr. Mehta", room |-> "Room 102",
      available_slots |-> text(<<"m", "o", "n", "1", ",", " ", "T", "U", "E", "2", ",">>)],
     [name |-> "Chemistry", faculty |-> "Dr. Rao", room |-> "Room 101",
      available_slots |-> text(<<"M", "o", "n", "1", ",", "F", "r", "i", "9", ",", "x", "y", "z">>)],
     [name |-> "History", faculty |-> "Dr. Rao", room |-> "Room 103",
      available_slots |-> text(<<>>)] >>

(* the most courses of one run of the exact solver *)
MaxExactCourses == 2

(* the courses of the catalogue picked for one run, in catalogue order *)
ExactCourseLists ==
  {l \in UNION {[1..n -> DOMAIN ExactCatalogue] : n \in 1..MaxExactCourses} :
     \A i \in 1..(Len(l) - 1) : l[i] < l[i + 1]}

ExactInputs ==
  UNION {{[i \in DOMAIN l |->
             [name |-> ExactCatalogue[l[i]].name,
              faculty |-> ExactCatalogue[l[i]].faculty,
              room |-> ExactCatalogue[l[i]].room,
              duration |-> n[i][1],
              weekly_count |-> n[i][2],
              slots_are_str |-> TRUE,
              available_slots |-> ExactCatalogue[l[i]].available_slots]] :
            n \in [DOMAIN l -> (1..MaxWeekly) \X (1..MaxWeekly)]} :
         l \in ExactCourseLists}

InitExact ==
  /\ training_data \in ExactInputs
  /\ pc = "exact_start"
  /\ timetable = [slots |-> EmptyMap]
  /\ Constructed
  /\ NoParse
  /\ NoExact
  /\ NoMain
  /\ has_metadata = TRUE

exact_unchanged ==
  UNCHANGED <<training_data, tracker_vars, MAX_FACULTY_SESSIONS_PER_DAY,
              expected_weekly, failure_reasons, course_states, round_idx, retry,
              progress, idx, conflicts, run, log, prev_log,
              prev_timetable, prev_removed, replay_ok, availability_data,
              parsed_slots, caller_vars>>

(* create_variables *)
CreateVariables ==
  /\ pc = "exact_start"
  /\ exact_courses' = [c \in DOMAIN training_data |-> course_data(training_data[c])]
  /\ pc' = "exact_model"
  /\ UNCHANGED <<status, solution, timetable>>
  /\ exact_unchanged

(* add_constraints, add_objectives and self.solver.Solve(self.model) *)
SolveModel ==
  /\ pc = "exact_model"
  /\ IF feasible_solutions = {}
     THEN status' = "INFEASIBLE" /\ solution' = {}
     ELSE status' = "OPTIMAL" /\ solution' \in optimal_solutions
  /\ pc' = "exact_status"
  /\ UNCHANGED <<exact_courses, timetable>>
  /\ exact_unchanged

(* the sessions extract_solution appends to one slot, in course order *)
extracted_sessions(d, t) ==
  LET here == {c \in DOMAIN exact_courses : <<c, d, t>> \in solution}
      pick(c) == IF c \in here
                 THEN << [course |-> exact_courses[c].name, faculty |-> exact_courses[c].faculty,
                          room |-> exact_courses[c].room] >>
                 ELSE <<>>
      RECURSIVE upto(_)
      upto(n) == IF n = 0 THEN <<>> ELSE upto(n - 1) \o pick(n)
  IN upto(Len(exact_courses))

(* status OPTIMAL or FEASIBLE: return self.extract_solution() *)
ExtractSolution ==
  /\ pc = "exact_status"
  /\ status = "OPTIMAL"
  /\ timetable' =
       [slots |-> [k \in {<<days[d], exact_time_slots[t]>> :
                            d \in DOMAIN days, t \in DOMAIN exact_time_slots} |->
                     extracted_sessions(list_index(days, k[1]),
                                        list_index(exact_time_slots, k[2]))]]
  /\ pc' = "exact_returned"
  /\ UNCHANGED exact_vars
  /\ exact_unchanged

(* any other status: return None *)
ReturnNone ==
  /\ pc = "exact_status"
  /\ status # "OPTIMAL"
  /\ pc' = "exact_none"
  /\ UNCHANGED <<exact_vars, timetable>>
  /\ exact_unchanged

NextExact == CreateVariables \/ SolveModel \/ ExtractSolution \/ ReturnNone

SpecExact == InitExact /\ [][NextExact]_vars

(* ============================== main.py =============================== *)
MaxMainCourses == 2

(* the records of data/training_dataset.json: the input parser keeps the
   availability as the text of the CSV cell *)
MainCatalogue ==
  << [name |-> <<"algorithms">>, faculty |-> "Dr. Jones", room |-> "Lab 1",
      session_type |-> "lecture",
      available_slots |-> text(<<"M", "o", "n", "1", ",", "M", "o", "n", "2">>)],
     [name |-> <<"chemistry">>, faculty |-> "Dr. Jones", room |-> "Hall 102",
      session_type |-> "lecture",
      available_slots |-> text(<<"M", "o", "n", "1">>)],
     [name |-> <<"physics">>, faculty |-> "Dr. Brown", room |-> "Lab 1",
      session_type |-> "lecture",
      available_slots |-> text(<<"M", "o", "n", "1", ",", "T", "u", "e", "2">>)],
     [name |-> <<"Mathematics", " ", "(", "Lecture", ")">>,
      faculty |-> "Dr. Brown", room |-> "Hall 201", session_type |-> "lecture",
      available_slots |-> text(<<>>)],
     [name |-> <<"Data Structures", " ", "(", "Lab", ")">>,
      faculty |-> "Dr. Smith", room |-> "Lab 1", session_type |-> "lab",
      available_slots |-> text(<<"M", "o", "n", "1", ",", "M", "o", "n", "2">>)] >>

MainLists ==
  {l \in UNION {[1..n -> DOMAIN MainCatalogue] : n \in 1..MaxMainCourses} :
     \A i \in 1..(Len(l) - 1) : l[i] < l[i + 1]}

(* input_parser: a lab has duration 2, a lecture duration = weekly_count *)
MainInfo(c, weekly) ==
  LET r == MainCatalogue[c]
  IN [name |-> r.name, faculty |-> r.faculty, room |-> r.room,
      session_type |-> r.session_type, weekly_count |-> weekly,
      duration |-> IF r.session_type = "lab" THEN default_lab_session_length ELSE weekly,
      slots_are_str |-> TRUE, available_slots |-> r.available_slots]

MainInputs ==
  UNION {{[i \in DOMAIN l |-> MainInfo(l[i], w[i])] : w \in [DOMAIN l -> 1..MaxWeekly]} :
         l \in MainLists}

(* the module is about to be imported; the data file is written *)
InitMain ==
  /\ training_data \in MainInputs
  /\ has_metadata = TRUE
  /\ pc = "import"
  /\ timetable = [slots |-> EmptyMap]
  /\ Constructed
  /\ NoParse
  /\ NoExact
  /\ NoMain

main_unchanged ==
  UNCHANGED <<training_data, tracker_vars, MAX_FACULTY_SESSIONS_PER_DAY,
              expected_weekly, failure_reasons, course_states, round_idx, retry,
              progress, idx, timetable, conflicts, run, log, prev_log,
              prev_timetable, prev_removed, replay_ok, availability_data,
              parsed_slots, exact_vars, has_metadata, prev_training_data,
              courses_data, legacy_vars>>

(* the try block at the head of main.py: the flag is True when the import
   and the trial CpModel()/CpSolver() succeed, and stays False when either
   raises *)
ImportOrTools ==
  /\ pc = "import"
  /\ ORTOOLS_AVAILABLE' \in BOOLEAN
  /\ pc' = "main"
  /\ main_unchanged

(* if ORTOOLS_AVAILABLE: solver = ORToolsTimetableSolver()
   else: solver = SimpleTimetableSolver(); timetable = solver.solve_timetable() *)
ChooseSolver ==
  /\ pc = "main"
  /\ pc' = IF ORTOOLS_AVAILABLE THEN "initialize_solver" ELSE "idle"
  /\ UNCHANGED ORTOOLS_AVAILABLE
  /\ main_unchanged

(* if not self.initialize_solver(): return None *)
InitializeSolver ==
  /\ pc = "initialize_solver"
  /\ \E initialized \in BOOLEAN :
       pc' = IF initialized THEN "exact_start" ELSE "initialize_failed"
  /\ UNCHANGED ORTOOLS_AVAILABLE
  /\ main_unchanged

(* main: timetable is None: print("Failed to generate timetable") *)
MainFailed ==
  /\ pc \in {"initialize_failed", "exact_none"}
  /\ pc' = "main_failed"
  /\ UNCHANGED ORTOOLS_AVAILABLE
  /\ main_unchanged

NextMain ==
  \/ ImportOrTools
  \/ ChooseSolver
  \/ InitializeSolver
  \/ MainFailed
  \/ NextExact
  \/ Next

SpecMain == InitMain /\ [][NextMain]_vars

(* ------------------- solve_timetable_from_data (a list) --------------- *)
(* the records a caller of the API can send: course_name as typed, the
   availability as text *)
DataCatalogue ==
  << [course_name |-> <<"Algorithms">>, faculty |-> "Dr. Jones", room |-> "Lab 1",
      session_type |-> "lecture", weekly_count |-> 1,
      availability |-> text(<<"m", "o", "n", "d", "a", "y", " ", "9", "a", "m">>)],
     [course_name |-> <<" ", "algorithms", " ">>, faculty |-> "Dr. Smith",
      room |-> "Hall 102", session_type |-> "Lecture", weekly_count |-> 2,
      availability |-> text(
           <<"m", "o", "n", "d", "a", "y", " ", "9", "a", "m", ",", "m", "o", "n", "d", "a", "y", " ", "1", "0", "a", "m">>)],
     [course_name |-> <<"physics">>, faculty |-> "Dr. Brown", room |-> "Hall 102",
      session_type |-> "lecture", weekly_count |-> 1,
      availability |-> text(<<"m", "o", "n", "d", "a", "y", " ", "9", "a", "m">>)],
     [course_name |-> <<" ">>, faculty |-> "Dr. Brown", room |-> "Hall 201",
      session_type |-> "lecture", weekly_count |-> 1,
      availability |-> text(<<"m", "o", "n", "d", "a", "y", " ", "1", "0", "a", "m">>)],
     [course_name |-> <<>>, faculty |-> "Dr. Jones", room |-> "Hall 201",
      session_type |-> "lecture", weekly_count |-> 1,
      availability |-> text(<<"t", "u", "e", "s", "d", "a", "y", " ", "9", "a", "m">>)],
     [course_name |-> <<"chemistry", " ">>, faculty |-> "Dr. Brown", room |-> "Lab 1",
      session_type |-> "lecture", weekly_count |-> 2,
      availability |-> text(
           <<"m", "o", "n", "d", "a", "y", " ", "9", "a", "m", ",", "m", "o", "n", "d", "a", "y", " ", "1", "0", "a", "m">>)],
     [course_name |-> <<"web development", " ", "(", "lab", ")">>, faculty |-> "Dr. Jones",
      room |-> "Hall 102", session_type |-> "Lab", weekly_count |-> 1,
      availability |-> text(
           <<"m", "o", "n", "d", "a", "y", " ", "9", "a", "m", ",", "m", "o", "n", "d", "a", "y", " ", "1", "0", "a", "m">>)] >>

(* the most records of one request *)
MaxDataRecords == 3

(* the requests: up to MaxDataRecords different records, in any order *)
DataInputs ==
  UNION {{[i \in DOMAIN q |-> DataCatalogue[q[i]]] :
            q \in {x \in [1..n -> DOMAIN DataCatalogue] :
                     \A i, j \in 1..n : i # j => x[i] # x[j]}} :
         n \in 1..MaxDataRecords}

(* course.get('course_name', '').strip().lower() *)
course_name_of(course) == str_lower(str_strip(course.course_name))

(* the entry built for one record.  The code nests component, weekly_count
   and available_slots in 'sessions'[0], where solve_timetable reads them
   back (session_type is component.lower()); the entry is kept flat here *)
courses_info_entry(course) ==
  [name |-> course_name_of(course),
   faculty |-> course.faculty,
   room |-> course.room,
   session_type |-> IF LowerPiece(course.session_type) = "lecture"
                    THEN LowerPiece("Lecture") ELSE LowerPiece("Lab"),
   weekly_count |-> course.weekly_count,
   available_slots |-> parse_availability_slots(course.availability)]

(* an assignment that leaves the entry of a key already present alone *)
dict_set_keep_first(info, name, entry) ==
  IF \E i \in DOMAIN info : info[i].name = name THEN info ELSE Append(info, entry)

(* courses_info[course_name] = {...}: a new key goes to the end, a key
   already present keeps its place and takes the new entry *)
dict_set(info, name, entry) ==
  IF \E i \in DOMAIN info : info[i].name = name
  THEN [i \in DOMAIN info |-> IF info[i].name = name THEN entry ELSE info[i]]
  ELSE Append(info, entry)

(* for course in courses_data: ... if not course_name: continue *)
RECURSIVE courses_info_of(_, _)
courses_info_of(info, data) ==
  IF data = <<>> THEN info
  ELSE IF course_name_of(Head(data)) = <<>> THEN courses_info_of(info, Tail(data))
  ELSE courses_info_of(dict_set(info, course_name_of(Head(data)),
                                courses_info_entry(Head(data))),
                       Tail(data))

(* solver = SimpleTimetableSolver(); solver.solve_timetable_from_data(list) *)
InitData ==
  /\ courses_data \in DataInputs
  /\ training_data = <<>>
  /\ has_metadata = FALSE
  /\ pc = "from_data"
  /\ timetable = [slots |-> EmptyMap]
  /\ Constructed
  /\ NoParse
  /\ NoExact
  /\ ORTOOLS_AVAILABLE = FALSE
  /\ prev_training_data = <<>>
  /\ NoLegacy

(* the conversion of the list; the call of solve_timetable follows *)
FromData ==
  /\ pc = "from_data"
  /\ training_data' = courses_info_of(<<>>, courses_data)
  /\ has_metadata' = TRUE
  /\ pc' = "idle"
  /\ UNCHANGED <<tracker_vars, MAX_FACULTY_SESSIONS_PER_DAY, expected_weekly,
                 failure_reasons, course_states, round_idx, retry, progress, idx,
                 timetable, conflicts, run, log, prev_log, prev_timetable,
                 prev_removed, replay_ok>>
  /\ UNCHANGED <<availability_data, parsed_slots, exact_vars, ORTOOLS_AVAILABLE,
                 prev_training_data, courses_data, legacy_vars>>

NextData == FromData \/ Next

SpecData == InitData /\ [][NextData]_vars

(* ---------------- the legacy one-pass TimetableSolver ----------------- *)
(* create_time_slots: the bands of every day; 13:00-14:00 is not one *)
time_periods == <<"09:00-10:00", "10:00-11:00", "11:00-12:00", "12:00-13:00",
                  "14:00-15:00", "15:00-16:00", "16:00-17:00", "17:00-18:00">>

legacy_day_mapping ==
  << [key |-> <<"M", "o", "n">>, value |-> "Monday"],
     [key |-> <<"T", "u", "e">>, value |-> "Tuesday"],
     [key |-> <<"W", "e", "d">>, value |-> "Wednesday"],
     [key |-> <<"T", "h", "u">>, value |-> "Thursday"],
     [key |-> <<"F", "r", "i">>, value |-> "Friday"] >>

legacy_time_mapping ==
  << [key |-> <<"1">>, value |-> "09:00-10:00"], [key |-> <<"2">>, value |-> "10:00-11:00"],
     [key |-> <<"3">>, value |-> "11:00-12:00"], [key |-> <<"4">>, value |-> "12:00-13:00"],
     [key |-> <<"5">>, value |-> "14:00-15:00"], [key |-> <<"6">>, value |-> "15:00-16:00"],
     [key |-> <<"7">>, value |-> "16:00-17:00"], [key |-> <<"8">>, value |-> "17:00-18:00"] >>

(* the (day, time) one string like "Mon2" appends, if any *)
legacy_slot(slot) ==
  LET day_part == SelectSeq(slot, is_alpha)
      time_part == SelectSeq(slot, is_digit)
  IN IF dict_has(legacy_day_mapping, day_part) /\ dict_has(legacy_time_mapping, time_part)
     THEN << <<dict_get(legacy_day_mapping, day_part),
               dict_get(legacy_time_mapping, time_part)>> >>
     ELSE <<>>

RECURSIVE parse_available_slots(_)
parse_available_slots(available_slots) ==
  IF available_slots = <<>> THEN <<>>
  ELSE legacy_slot(Head(available_slots)) \o parse_available_slots(Tail(available_slots))

(* the test on the first band of the course only *)
can_schedule_at_start_only(day, start_time, duration, faculty, room, sched) ==
  \A e \in Range(sched[<<day, start_time>>]) : e.faculty # faculty /\ e.room # room

(* every one of the duration bands from start_time on exists and holds no
   entry of the faculty or of the room *)
can_schedule_at(day, start_time, duration, faculty, room, sched) ==
  LET start_idx == list_index(time_periods, start_time)
  IN \A i \in 0..(duration - 1) :
       /\ start_idx + i <= Len(time_periods)
       /\ \A e \in Range(sched[<<day, time_periods[start_idx + i]>>]) :
            e.faculty # faculty /\ e.room # room

(* the entries the loop over range(duration) appends from time_period on *)
with_course(sched, course, day, time_period) ==
  LET start_idx == list_index(time_periods, time_period)
  IN [k \in DOMAIN sched |->
        IF /\ k[1] = day
           /\ \E i \in 0..(course.duration - 1) :
                /\ start_idx + i <= Len(time_periods)
                /\ k[2] = time_periods[start_idx + i]
        THEN Append(sched[k],
                    [course |-> course.name, faculty |-> course.faculty,
                     room |-> course.room, duration |-> course.duration,
                     slot_number |-> list_index(time_periods, k[2]) - start_idx + 1])
        ELSE sched[k]]

(* schedule_course: the first possible slot that passes is taken *)
schedule_course(course, sched) ==
  LET possible_slots == parse_available_slots(course.available_slots)
      passing == {n \in DOMAIN possible_slots :
                    can_schedule_at(possible_slots[n][1], possible_slots[n][2],
                                    course.duration, course.faculty, course.room, sched)}
  IN IF passing = {} THEN sched
     ELSE with_course(sched, course, possible_slots[SetMin(passing)][1],
                      possible_slots[SetMin(passing)][2])

(* priority_key: (is_lab, duration, -available_slots) *)
priority_key(course) ==
  <<IF course.room_type = "lab" THEN 1 ELSE 0, course.duration, 0 - Len(course.available_slots)>>

(* sorted(course_list, key=priority_key, reverse=True): descending, equal
   keys in the order of the input *)
RECURSIVE insert_by_key(_, _)
insert_by_key(sorted, x) ==
  IF sorted = <<>> THEN <<x>>
  ELSE IF TupleLess(priority_key(Head(sorted)), priority_key(x)) THEN <<x>> \o sorted
  ELSE <<Head(sorted)>> \o insert_by_key(Tail(sorted), x)

RECURSIVE sort_courses_by_priority(_)
sort_courses_by_priority(courses) ==
  IF courses = <<>> THEN <<>>
  ELSE insert_by_key(sort_courses_by_priority(SubSeq(courses, 1, Len(courses) - 1)),
                     courses[Len(courses)])

(* the course records of the legacy solver: available_slots is a list of
   strings *)
LegacyCatalogue ==
  << [name |-> "Mathematics", faculty |-> "Dr. Mehta", room |-> "Room 101",
      room_type |-> "classroom", available_slots |-> <<<<"M", "o", "n", "4">>, <<"M", "o", "n", "8">>>>],
     [name |-> "Algebra", faculty |-> "Dr. Mehta", room |-> "Room 102",
      room_type |-> "classroom", available_slots |-> <<<<"M", "o", "n", "4">>, <<"M", "o", "n", "5">>, <<"T", "u", "e", "1">>>>],
     [name |-> "Chemistry", faculty |-> "Dr. Rao", room |-> "Room 101",
      room_type |-> "classroom", available_slots |-> <<<<"M", "o", "n", "5">>, <<"m", "o", "n", "1">>, <<"M", "o", "n", "9">>>>],
     [name |-> "History", faculty |-> "Dr. Rao", room |-> "Room 103",
      room_type |-> "classroom", available_slots |-> << >>],
     [name |-> "Physics Lab", faculty |-> "Prof. Sharma", room |-> "Room 102",
      room_type |-> "lab", available_slots |-> <<<<"M", "o", "n", "8">>, <<"M", "o", "n", "4">>>>] >>

(* the most courses of one run of the legacy solver *)
MaxLegacyCourses == 2

(* the most bands of one course of the legacy solver *)
MaxLegacyDuration == 2

LegacyInputs ==
  UNION {{[i \in DOMAIN q |->
             [name |-> LegacyCatalogue[q[i]].name,
              faculty |-> LegacyCatalogue[q[i]].faculty,
              room |-> LegacyCatalogue[q[i]].room,
              room_type |-> LegacyCatalogue[q[i]].room_type,
              duration |-> w[i],
              available_slots |-> LegacyCatalogue[q[i]].available_slots]] :
            w \in [DOMAIN q -> 1..MaxLegacyDuration]} :
         q \in UNION {{x \in [1..n -> DOMAIN LegacyCatalogue] :
                         \A i, j \in 1..n : i # j => x[i] # x[j]} :
                      n \in 1..MaxLegacyCourses}}

(* solver = TimetableSolver(); the data are loaded *)
InitLegacy ==
  /\ training_data \in LegacyInputs
  /\ pc = "generate_schedule"
  /\ has_metadata = TRUE
  /\ timetable = [slots |-> EmptyMap]
  /\ Constructed
  /\ NoParse
  /\ NoExact
  /\ NoMain

legacy_unchanged ==
  UNCHANGED <<training_data, tracker_vars, MAX_FACULTY_SESSIONS_PER_DAY,
              expected_weekly, failure_reasons, course_states, round_idx, retry,
              progress, timetable, conflicts, run, log, prev_log, prev_timetable,
              prev_removed, replay_ok, availability_data, parsed_slots, exact_vars,
              has_metadata, ORTOOLS_AVAILABLE, prev_training_data, courses_data>>

(* generate_schedule up to its loop: the empty schedule, the sorted courses *)
GenerateStart ==
  /\ pc = "generate_schedule"
  /\ schedule' = [k \in DaySet \X Range(time_periods) |-> <<>>]
  /\ sorted_courses' = sort_courses_by_priority(training_data)
  /\ idx' = 1
  /\ pc' = "legacy_for"
  /\ legacy_unchanged

(* for course_name, course_info in sorted_courses: schedule_course(...) *)
ScheduleCourse ==
  /\ pc = "legacy_for"
  /\ idx <= Len(sorted_courses)
  /\ schedule' = schedule_course(sorted_courses[idx], schedule)
  /\ idx' = idx + 1
  /\ UNCHANGED <<pc, sorted_courses>>
  /\ legacy_unchanged

(* self.schedule = schedule; return schedule *)
GenerateReturn ==
  /\ pc = "legacy_for"
  /\ idx > Len(sorted_courses)
  /\ pc' = "legacy_returned"
  /\ UNCHANGED <<idx, schedule, sorted_courses>>
  /\ legacy_unchanged

NextLegacy == GenerateStart \/ ScheduleCourse \/ GenerateReturn

SpecLegacy == InitLegacy /\ [][NextLegacy]_vars

(* =============================== claims =============================== *)
(* the sessions of the timetable under construction: slot key and position *)
Sessions ==
  UNION {{<<k, i>> : i \in DOMAIN scheduled_slots[k]} : k \in DOMAIN scheduled_slots}

session_of(p) == scheduled_slots[p[1]][p[2]]

state_of(name) ==
  course_states[CHOOSE i \in DOMAIN course_states : course_states[i].name = name]

(* the units (lecture sessions, lab blocks) committed for a course *)
units_committed(name) == Cardinality({i \in DOMAIN log : log[i].course = name})

entries_of(name) == Cardinality({p \in Sessions : session_of(p).course = name})

run_ended == pc \in {"returned", "done"}

(* two placed sessions of different courses, the second course having the
   slot of the first among its candidate slots *)
Contended(p, q) ==
  /\ session_of(p).course # session_of(q).course
  /\ p[1] \in Range(state_of(session_of(q).course).available_slots)

(* C1: at every point of a run no faculty member has two sessions at one
   (day, time-slot) *)
C1_NoFacultyDoubleBooking ==
  \A k \in DOMAIN scheduled_slots : \A i, j \in DOMAIN scheduled_slots[k] :
     i # j => scheduled_slots[k][i].faculty # scheduled_slots[k][j].faculty

C1_Witness ==
  \E p, q \in Sessions :
     /\ Contended(p, q)
     /\ session_of(p).faculty = session_of(q).faculty

(* C2: at every point of a run no room hosts two sessions at one
   (day, time-slot) *)
C2_NoRoomDoubleBooking ==
  \A k \in DOMAIN scheduled_slots : \A i, j \in DOMAIN scheduled_slots[k] :
     i # j => scheduled_slots[k][i].room # scheduled_slots[k][j].room

C2_Witness ==
  \E p, q \in Sessions :
     /\ Contended(p, q)
     /\ session_of(p).room = session_of(q).room
     /\ session_of(p).faculty # session_of(q).faculty

in_one_cohort(base1, base2) ==
  \E g \in DOMAIN core_courses : base1 \in core_courses[g] /\ base2 \in core_courses[g]

(* C3: no slot key holds two sessions whose normalized base names differ and
   are both members of one cohort group *)
C3_NoCohortConflict ==
  \A k \in DOMAIN scheduled_slots : \A i, j \in DOMAIN scheduled_slots[k] :
     LET base1 == normalize_course_name(scheduled_slots[k][i].course)
         base2 == normalize_course_name(scheduled_slots[k][j].course)
     IN ~(base1 # base2 /\ in_one_cohort(base1, base2))

C3_Witness ==
  \E p, q \in Sessions :
     /\ Contended(p, q)
     /\ session_of(p).faculty # session_of(q).faculty
     /\ session_of(p).room # session_of(q).room
     /\ normalize_course_name(session_of(p).course)
          # normalize_course_name(session_of(q).course)
     /\ in_one_cohort(normalize_course_name(session_of(p).course),
                      normalize_course_name(session_of(q).course))

unit_size(state) ==
  IF state.session_type = "lab" THEN default_lab_session_length ELSE 1

(* C4: in the main rounds and in the relaxation pass the units committed for
   a course never exceed its weekly target (nor do its timetable entries
   exceed the slot-hours of that many units), and no WEEKLY_OVERFILLED
   reason is recorded *)
C4_NeverOverfilled ==
  /\ \A i \in DOMAIN course_states :
       /\ units_committed(course_states[i].name) <= course_states[i].weekly_target
       /\ entries_of(course_states[i].name)
            <= course_states[i].weekly_target * unit_size(course_states[i])
  /\ \A n \in DOMAIN failure_reasons : failure_reasons[n].code # "WEEKLY_OVERFILLED"

C4_Witness ==
  /\ pc = "relax_for"
  /\ \E i \in DOMAIN course_states :
       /\ i < idx
       /\ units_committed(course_states[i].name) = course_states[i].weekly_target
       /\ Range(course_states[i].available_slots) \ global_slot_usage # {}

(* C5: every committed lab block occupies exactly default_lab_session_length
   bands, all candidate slots of the course, on one day, at consecutive
   positions of the band order; the lab entries of the timetable are exactly
   the slots of these blocks *)
C5_LabBlocksContiguous ==
  /\ \A i \in DOMAIN log :
       state_of(log[i].course).session_type = "lab" =>
         LET slots == log[i].slots
         IN /\ Len(slots) = default_lab_session_length
            /\ \A j \in DOMAIN slots :
                 /\ slots[j] \in Range(state_of(log[i].course).available_slots)
                 /\ slots[j][1] = slots[1][1]
                 /\ slots[j][2] \in TimeSet
                 /\ get_time_index(slots[j][2]) = get_time_index(slots[1][2]) + (j - 1)
  /\ \A p \in Sessions :
       session_of(p).session_type = "lab" =>
         \E i \in DOMAIN log :
            log[i].course = session_of(p).course /\ p[1] \in Range(log[i].slots)

C5_Witness ==
  \E i \in DOMAIN log :
     /\ state_of(log[i].course).session_type = "lab"
     /\ \E d \in DaySet : \E t1, t2 \in TimeSet :
          /\ <<d, t1>> \in Range(state_of(log[i].course).available_slots)
          /\ <<d, t2>> \in Range(state_of(log[i].course).available_slots)
          /\ get_time_index(t2) = get_time_index(t1) + 2
          /\ time_slots[get_time_index(t1) + 2] \notin
               {s[2] : s \in {x \in Range(state_of(log[i].course).available_slots) : x[1] = d}}

(* C6: a course that has no candidate slot, or whose candidate slots are all
   filtered out, gets a failure reason and nothing else: the call ends with
   a timetable, and a second call on the same courses without (some of) the
   infeasible ones can take the same tie-breaks and then commits the same
   units in the same order and returns the same timetable *)
C6_InfeasibleCourseIsolated ==
  /\ run_ended =>
       \A i \in DOMAIN course_states :
          actual_weekly[course_states[i].name] = 0 =>
            course_states[i].name \in DOMAIN failure_reasons
  /\ replay_ok
  /\ (run = 2 /\ run_ended) =>
       /\ log = prev_log
       /\ timetable.slots = prev_timetable.slots
       /\ \A n \in prev_removed : entries_of(n) = 0

C6_Witness ==
  /\ run = 2
  /\ pc = "done"
  /\ Len(log) >= 2
  /\ \E n \in prev_removed :
       \E i \in DOMAIN log : log[i].slots[1] \in
          Range(Catalogue[CHOOSE c \in DOMAIN Catalogue : Catalogue[c].name = n].available_slots)

(* C7: when the call ends, every course with remaining demand > 0 has an
   entry in failure_reasons *)
C7_DeficitsRecorded ==
  run_ended =>
    \A i \in DOMAIN course_states :
       (course_states[i].remaining > 0
        \/ units_committed(course_states[i].name) < course_states[i].weekly_target)
         => course_states[i].name \in DOMAIN failure_reasons

C7_Witness ==
  /\ pc = "done"
  /\ \E i \in DOMAIN course_states :
       /\ course_states[i].remaining > 0
       /\ units_committed(course_states[i].name) > 0

(* C8: when the call ends, a course whose weekly target is met, placements
   of the relaxation pass included, has no entry in failure_reasons *)
C8_NoReasonWhenMet ==
  run_ended =>
    \A i \in DOMAIN course_states :
       units_committed(course_states[i].name) = course_states[i].weekly_target
         => course_states[i].name \notin DOMAIN failure_reasons

C8_Witness ==
  /\ pc = "done"
  /\ MAX_FACULTY_SESSIONS_PER_DAY = RELAXED_FACULTY_CAP
  /\ \E i \in DOMAIN course_states :
       /\ units_committed(course_states[i].name) = course_states[i].weekly_target
       /\ course_states[i].weekly_target > 1

(* C9 as stated: the two numbers of a WEEKLY_DEFICIT reason are the units
   committed for the course and its weekly target *)
C9_DeficitCountsUnits ==
  run_ended =>
    \A n \in DOMAIN failure_reasons :
       failure_reasons[n].code = "WEEKLY_DEFICIT" =>
         /\ failure_reasons[n].expected = state_of(n).weekly_target
         /\ failure_reasons[n].actual = units_committed(n)

(* C9 as amended: the two numbers of a WEEKLY_DEFICIT reason count
   slot-hours: for a lecture course they are the sessions committed and the
   weekly target, for a lab course the blocks committed and the weekly
   target, each times default_lab_session_length *)
C9_DeficitCountsSlotHours ==
  run_ended =>
    \A n \in DOMAIN failure_reasons :
       failure_reasons[n].code = "WEEKLY_DEFICIT" =>
         /\ failure_reasons[n].expected
              = state_of(n).weekly_target * unit_size(state_of(n))
         /\ failure_reasons[n].actual = units_committed(n) * unit_size(state_of(n))
         /\ failure_reasons[n].actual = entries_of(n)

C9_Witness ==
  /\ pc = "done"
  /\ \E n \in DOMAIN failure_reasons :
       /\ failure_reasons[n].code = "WEEKLY_DEFICIT"
       /\ state_of(n).session_type = "lab"
       /\ units_committed(n) > 0

(* C10: validate_timetable, applied to the timetable solve_timetable
   returned, reports no faculty, room or student conflict and
   total_conflicts = 0 *)
C10_ValidatorFindsNothing ==
  pc = "done" =>
    /\ conflicts.faculty_conflicts = {}
    /\ conflicts.room_conflicts = {}
    /\ conflicts.student_conflicts = {}
    /\ conflicts.total_conflicts = 0

C10_Witness ==
  /\ pc = "done"
  /\ \E k1, k2 \in DOMAIN timetable.slots :
       /\ k1 # k2
       /\ timetable.slots[k1][1].course # timetable.slots[k2][1].course
       /\ k1 \in Range(state_of(timetable.slots[k2][1].course).available_slots)
       /\ courses_conflict(str_lower(timetable.slots[k1][1].course),
                           str_lower(timetable.slots[k2][1].course))

(* ---------------------- the availability resolver --------------------- *)
(* the day a valid day word names *)
NamedDay(w) ==
  CASE w = <<"m", "o", "n", "d", "a", "y">> -> "Monday" [] w = <<"M", "o", "n">> -> "Monday"
    [] w = <<"F", "R", "I">> -> "Friday" [] w = <<"t", "u", "e">> -> "Tuesday"

(* the band that starts at the hour a time word names; 1pm is not among the
   recognized forms *)
NamedBand(t) ==
  CASE t = <<"9", "a", "m">> -> "09:00-10:00" [] t = <<"1", "0", "a", "m">> -> "10:00-11:00"
    [] t = <<"1", "1", "a", "m">> -> "11:00-12:00" [] t = <<"1", "2", "p", "m">> -> "12:00-13:00"
    [] t = <<"2", "p", "m">> -> "14:00-15:00" [] t = <<"3", "p", "m">> -> "15:00-16:00"
    [] t = <<"4", "p", "m">> -> "16:00-17:00" [] t = <<"5", "p", "m">> -> "17:00-18:00"
    [] t = <<"9">> -> "09:00-10:00" [] t = <<"1", "2">> -> "12:00-13:00"
    [] t = <<"2">> -> "14:00-15:00"

RecognizedTimeWords == TimeWords \ {<<"1", "p", "m">>}

parse_returned == pc = "parsed"

(* the tokens of the expression that was parsed *)
tokens_given ==
  IF availability_data.is_list THEN availability_data.value
  ELSE IF availability_data.value = <<>> THEN <<>>
  ELSE str_split(availability_data.value, ",")

(* the expression was the single token tok *)
given_alone(tok) == parse_returned /\ tokens_given = <<tok>>

(* C13: a compact token <3-letter-day><digit d>, given alone, resolves to
   exactly one slot key: that day and its d-th band (so "Mon2" gives
   (Monday, 10:00-11:00), as "monday 10am" does) *)
C13_CompactTokenIsOneSlot ==
  \A w \in {<<"M", "o", "n">>, <<"t", "u", "e">>, <<"F", "R", "I">>} : \A d \in {"1", "2", "9"} :
     given_alone(w \o <<d>>) =>
        parsed_slots = << <<NamedDay(w), slot_mapping[d]>> >>

(* C14: a token "<day> <time>" with a recognized time word (9am .. 5pm or a
   bare hour), given alone, resolves to exactly one slot key: that day and
   the band starting at that time *)
C14_DayTimeIsOneSlot ==
  \A w \in ValidDayWords : \A t \in RecognizedTimeWords :
     given_alone(w \o <<" ">> \o t) =>
        parsed_slots = << <<NamedDay(w), NamedBand(t)>> >>

(* C15: a bare day name or 3-letter abbreviation, in any letter case, given
   alone, resolves to the nine bands of that day, in the order of the grid,
   and to nothing else *)
C15_BareDayIsWholeDay ==
  \A w \in ValidDayWords :
     given_alone(w) =>
        /\ Len(parsed_slots) = 9
        /\ \A i \in 1..9 : parsed_slots[i] = <<NamedDay(w), time_slots[i]>>

C15_Witness ==
  /\ given_alone(<<"F", "R", "I">>)
  /\ <<"Friday", "17:00-18:00">> \in Range(parsed_slots)

(* C16: the parsed result contains no slot key twice *)
C16_NoDuplicateSlots ==
  parse_returned =>
     \A i, j \in DOMAIN parsed_slots : i # j => parsed_slots[i] # parsed_slots[j]

(* the token names no day: its day word is not a day name *)
invalid_day_token(tok) ==
  \E w \in InvalidDayWords :
     tok = w \/ (Len(tok) > Len(w) /\ SubSeq(tok, 1, Len(w) + 1) = w \o <<" ">>)

tokens_kept == SelectSeq(tokens_given, LAMBDA tok : ~invalid_day_token(tok))

(* C17: tokens with an invalid day are skipped: the result for the whole
   expression is the result for the expression without them, and an
   expression of invalid tokens only gives the empty result *)
C17_InvalidDayTokensSkipped ==
  parse_returned =>
     /\ parsed_slots =
          parse_availability_slots(
            [is_list |-> availability_data.is_list,
             value |-> IF availability_data.is_list THEN tokens_kept
                       ELSE str_join(tokens_kept, ",")])
     /\ (tokens_kept = <<>> => parsed_slots = <<>>)

C17_Witness ==
  /\ parse_returned
  /\ Len(tokens_given) = 2
  /\ invalid_day_token(tokens_given[1])
  /\ ~invalid_day_token(tokens_given[2])
  /\ parsed_slots # <<>>

(* ------------------ validate_timetable on any timetable --------------- *)
validated == pc = "done"

classes_at(k) == timetable.slots[k]

(* C11: for any timetable, validate_timetable reports a faculty conflict at
   a slot key iff two sessions there share a faculty, a room conflict iff two
   sessions there share a room, a cohort conflict for a pair of sessions iff
   their normalized base names differ and lie in one cohort group; and
   total_conflicts is the number of all conflicts reported *)
C11_ValidatorExact ==
  validated =>
    /\ \A k \in DOMAIN timetable.slots :
         /\ (\E c \in conflicts.faculty_conflicts : c.day = k[1] /\ c.time = k[2])
            <=> (\E i, j \in DOMAIN classes_at(k) :
                   i # j /\ classes_at(k)[i].faculty = classes_at(k)[j].faculty)
         /\ (\E c \in conflicts.room_conflicts : c.day = k[1] /\ c.time = k[2])
            <=> (\E i, j \in DOMAIN classes_at(k) :
                   i # j /\ classes_at(k)[i].room = classes_at(k)[j].room)
         /\ \A i, j \in DOMAIN classes_at(k) :
              i < j =>
                ((\E c \in conflicts.student_conflicts :
                     c.day = k[1] /\ c.time = k[2] /\ c.at = <<i, j>>)
                 <=> LET base1 == normalize_course_name(classes_at(k)[i].course)
                         base2 == normalize_course_name(classes_at(k)[j].course)
                     IN base1 # base2 /\ in_one_cohort(base1, base2))
    /\ \A c \in conflicts.faculty_conflicts \cup conflicts.room_conflicts
                \cup conflicts.student_conflicts :
         <<c.day, c.time>> \in DOMAIN timetable.slots
    /\ conflicts.total_conflicts =
         Cardinality(conflicts.faculty_conflicts) + Cardinality(conflicts.room_conflicts)
         + Cardinality(conflicts.student_conflicts)

C11_Witness ==
  /\ validated
  /\ conflicts.faculty_conflicts # {}
  /\ conflicts.room_conflicts # {}
  /\ conflicts.student_conflicts # {}
  /\ \E k \in DOMAIN timetable.slots : \E i, j \in DOMAIN classes_at(k) :
       /\ i # j
       /\ normalize_course_name(classes_at(k)[i].course)
          = normalize_course_name(classes_at(k)[j].course)

(* ----------------------------- termination ---------------------------- *)
in_solve ==
  pc \in {"idle", "main_head", "main_for", "mark", "relax_head", "relax_for", "finish"}

(* the steps one round can take: its head, one per course, its end *)
round_steps == Len(training_data) + 3

(* the steps still in the for loop of the current round *)
for_steps == Len(training_data) + 2 - idx

(* an upper bound of the number of steps solve_timetable still takes *)
steps_left ==
  LET relax_all == 2 + retry_rounds * round_steps
      main_end == relax_all + 2
  IN CASE pc = "finish" -> 1
       [] pc = "relax_head" -> 2 + (retry_rounds - retry) * round_steps
       [] pc = "relax_for" -> 2 + (retry_rounds - retry - 1) * round_steps + for_steps
       [] pc = "mark" -> relax_all + 1
       [] pc = "main_head" -> main_end + (MAX_ROUNDS - round_idx) * round_steps
       [] pc = "main_for" -> main_end + (MAX_ROUNDS - round_idx) * round_steps + for_steps
       [] pc = "idle" -> main_end + MAX_ROUNDS * round_steps + 1
       [] OTHER -> 0

(* the position is one at which the code has a next statement: a loop head,
   a course of the for loop, or the end of the for loop *)
has_next_statement ==
  \/ pc \in {"idle", "main_head", "mark", "relax_head", "finish"}
  \/ pc \in {"main_for", "relax_for"} /\ idx \in 1..(Len(course_states) + 1)

(* C12: solve_timetable terminates: until it returns it is at a statement
   to execute, and every step lowers a bound of the steps left; the main loop
   runs at most MAX_ROUNDS rounds and leaves at the first round without a
   placement, the relaxation pass runs at most retry_rounds rounds and leaves
   at its first round without a placement *)
C12_Terminates ==
  /\ [](round_idx <= MAX_ROUNDS /\ retry <= retry_rounds)
  /\ [](in_solve => (has_next_statement /\ steps_left > 0))
  /\ [][in_solve => (steps_left' < steps_left /\ (in_solve' \/ pc' = "returned"))]_vars
  /\ [][(pc = "main_for" /\ pc' # "main_for") => (pc' = "mark" <=> ~progress)]_vars
  /\ [][(pc = "relax_for" /\ pc' # "relax_for") => (pc' = "finish" <=> ~progress)]_vars

C12_Witness ==
  /\ pc = "returned"
  /\ round_idx >= 2
  /\ MAX_FACULTY_SESSIONS_PER_DAY = RELAXED_FACULTY_CAP
  /\ \E i \in DOMAIN course_states : course_states[i].remaining > 0

(* ----------------------- C18, C19: penalty report --------------------- *)
reported == "penalty_analysis" \in DOMAIN timetable

(* the lecture sessions of the returned timetable: <<day, band, position>> *)
lecture_sessions ==
  UNION {{<<k[1], k[2], p>> : p \in {q \in DOMAIN timetable.slots[k] :
                                      timetable.slots[k][q].session_type = "lecture"}} :
         k \in DOMAIN timetable.slots}

lecture_at(x) == timetable.slots[<<x[1], x[2]>>][x[3]]

(* pairs of lecture sessions of one base course on one day, the second in the
   band that follows the first one's band in the grid *)
adjacent_lecture_pairs ==
  {pr \in lecture_sessions \X lecture_sessions :
     /\ pr[1][1] = pr[2][1]
     /\ get_time_index(pr[2][2]) = get_time_index(pr[1][2]) + 1
     /\ base_course_of(lecture_at(pr[1]).course) = base_course_of(lecture_at(pr[2]).course)}

(* C18: the final report's consecutive_same_course is +1 for each pair of
   lecture sessions of the same base course in adjacent bands of the grid on
   the same day, and nothing for pairs whose bands are not adjacent *)
C18_ConsecutiveIsGridAdjacency ==
  reported =>
    timetable.penalty_analysis.consecutive_same_course
      = Cardinality(adjacent_lecture_pairs) * PENALTY_CONSECUTIVE_SAME_COURSE

lectures_in_band(time_slot) == {x \in lecture_sessions : x[2] = time_slot}

(* C19: a lecture in 16:00-17:00 is charged +2 and a lecture in 17:00-18:00
   is charged +3, in a candidate's score and in the final report *)
C19_LateLectureCharges ==
  reported =>
    /\ \A x \in lectures_in_band("16:00-17:00") :
         late_lecture_penalty(name_has_lecture(lecture_at(x).course), x[2])
           = PENALTY_LATE_LECTURE
    /\ \A x \in lectures_in_band("17:00-18:00") :
         late_lecture_penalty(name_has_lecture(lecture_at(x).course), x[2])
           = PENALTY_VERY_LATE_LECTURE
    /\ timetable.penalty_analysis.late_lectures
         = PENALTY_LATE_LECTURE * Cardinality(lectures_in_band("16:00-17:00"))
    /\ timetable.penalty_analysis.very_late_lectures
         = PENALTY_VERY_LATE_LECTURE * Cardinality(lectures_in_band("17:00-18:00"))

(* --------------------------- C20: exact solver ------------------------ *)
(* the weekly target of a course record, as the greedy scheduler reads it *)
weeklyTarget(info) == info.weekly_count

(* the slot keys at which the returned timetable holds a session of name *)
exact_sessions_of(name) ==
  UNION {{<<k, p>> : p \in {q \in DOMAIN timetable.slots[k] :
                              timetable.slots[k][q].course = name}} :
         k \in DOMAIN timetable.slots}

candidateSlots(info) ==
  {<<days[x[1]], exact_time_slots[x[2]]>> :
     x \in Range(exact_parse_availability_slots(info.available_slots.value))}

(* C20: a timetable the exact solver returns holds every course exactly
   weeklyTarget times, and only at slot keys of the course's own candidate
   slots *)
C20_ExactlyWeeklyTarget ==
  pc = "exact_returned" =>
    \A i \in DOMAIN training_data :
      /\ Cardinality(exact_sessions_of(training_data[i].name))
           = weeklyTarget(training_data[i])
      /\ \A x \in exact_sessions_of(training_data[i].name) :
           x[1] \in candidateSlots(training_data[i])

(* --------------------------- C28: one round --------------------------- *)
in_for_loop == pc \in {"main_for", "relax_for"}

names_in_order == [i \in DOMAIN course_states |-> course_states[i].name]

(* the step is the visit of the course at position idx *)
visit == in_for_loop /\ idx <= Len(course_states) /\ idx' # idx

(* C28: in a round the courses are visited once each in the priority order;
   a visit commits at most one unit, only for a course with remaining > 0;
   remaining goes down by exactly one with a committed unit and is left as
   it is when nothing is committed; no other course's remaining changes *)
C28_OneUnitPerVisit ==
  /\ [][in_for_loop => (names_in_order' = names_in_order /\ idx' \in {idx, idx + 1})]_vars
  /\ [][(~in_for_loop /\ in_for_loop') => idx' = 1]_vars
  /\ [][(in_for_loop /\ ~in_for_loop') => idx = Len(course_states) + 1]_vars
  /\ [][visit =>
          /\ pc' = pc
          /\ \A j \in DOMAIN course_states :
               j # idx => course_states'[j].remaining = course_states[j].remaining
          /\ Len(log') \in {Len(log), Len(log) + 1}
          /\ course_states'[idx].remaining
               = course_states[idx].remaining - (Len(log') - Len(log))
          /\ course_states[idx].remaining <= 0 => log' = log
          /\ log' # log =>
               /\ log'[Len(log')].course = course_states[idx].name
               /\ Len(log'[Len(log')].slots)
                    = IF course_states[idx].session_type = "lab" THEN block_hours ELSE 1
               /\ actual_weekly'[course_states[idx].name]
                    = actual_weekly[course_states[idx].name] + Len(log'[Len(log')].slots)]_vars
  /\ [][~visit => (log' = log \/ pc' = "main_head")]_vars

(* a round in which one course committed a unit and another, still short of
   its target, committed nothing *)
C28_Witness ==
  /\ pc = "main_for"
  /\ idx = Len(course_states) + 1
  /\ progress
  /\ round_idx >= 2
  /\ \E i \in DOMAIN course_states : course_states[i].remaining > 0
  /\ \E i \in DOMAIN course_states :
       /\ course_states[i].session_type = "lab"
       /\ course_states[i].remaining < course_states[i].weekly_target

(* ------------------------ C29: the priority order --------------------- *)
sorted_states ==
  pc \in {"main_head", "main_for", "mark", "relax_head", "relax_for", "finish"}

slot_count(state) == Len(state.available_slots)

position_in_input(state) ==
  CHOOSE i \in DOMAIN training_data : training_data[i].name = state.name

(* weeklyTarget / max(1, |candidateSlots|) of a is greater than that of b *)
claimed_density_greater(a, b) ==
  LET da == IF slot_count(a) > 1 THEN slot_count(a) ELSE 1
      db == IF slot_count(b) > 1 THEN slot_count(b) ELSE 1
  IN a.weekly_target * db > b.weekly_target * da

(* C29 as stated: the courses are in descending order of
   weeklyTarget / max(1, |candidateSlots|), a course without candidate slots
   included, ties in ascending order of |candidateSlots| *)
C29_OrderByDensityAsStated ==
  sorted_states =>
    \A i, j \in DOMAIN course_states :
      i < j =>
        /\ ~claimed_density_greater(course_states[j], course_states[i])
        /\ ~claimed_density_greater(course_states[i], course_states[j])
             => slot_count(course_states[i]) <= slot_count(course_states[j])

(* C29 amended: the courses without candidate slots come first (their
   density is infinite); the others follow in descending order of
   weeklyTarget / |candidateSlots|, ties in ascending order of
   |candidateSlots|; courses equal on both keep the order of the input *)
C29_OrderByDensity ==
  sorted_states =>
    /\ {course_states[i].name : i \in DOMAIN course_states}
         = {training_data[i].name : i \in DOMAIN training_data}
    /\ Len(course_states) = Len(training_data)
    /\ \A i, j \in DOMAIN course_states :
         i < j =>
           LET a == course_states[i]
               b == course_states[j]
               na == slot_count(a)
               nb == slot_count(b)
           IN /\ nb = 0 => na = 0
              /\ (na > 0 /\ nb > 0) => a.weekly_target * nb >= b.weekly_target * na
              /\ (na > 0 /\ nb > 0 /\ a.weekly_target * nb = b.weekly_target * na)
                   => na <= nb
              /\ (na = nb /\ (na = 0 \/ a.weekly_target = b.weekly_target))
                   => position_in_input(a) < position_in_input(b)

(* a course without candidate slots is attempted before a course whose
   weeklyTarget / max(1, |candidateSlots|) is greater than its own *)
C29_Witness ==
  /\ sorted_states
  /\ \E i, j \in DOMAIN course_states :
       /\ i < j
       /\ slot_count(course_states[i]) = 0
       /\ claimed_density_greater(course_states[j], course_states[i])

(* ---------------------- C30: the slot of a lecture -------------------- *)
(* the step commits one lecture session of the course at position idx *)
lecture_commit ==
  /\ in_for_loop
  /\ idx <= Len(course_states)
  /\ course_states[idx].session_type # "lab"
  /\ Len(log') = Len(log) + 1

(* the slots of the course that pass isAvailable and have no cohort
   conflict, on the state before the commit *)
passing_slots(state) ==
  {s \in Range(state.available_slots) :
     /\ (allow_parallel \/ s \notin global_slot_usage)
     /\ s \notin faculty_schedule[state.faculty]
     /\ s \notin room_schedule[state.room]
     /\ ~has_student_conflict(s[1], s[2], state.name)}

(* (dayLoad, facultyDayLoad, preference rank, penalty) of a is strictly
   smaller than that of b *)
four_tuple_smaller(state, a, b) ==
  LET l1 == day_load[a[1]]
      r1 == day_load[b[1]]
      l2 == faculty_day_load[<<state.faculty, a[1]>>]
      r2 == faculty_day_load[<<state.faculty, b[1]>>]
      l3 == get_time_preference(a[2])
      r3 == get_time_preference(b[2])
      l4 == calculate_soft_constraint_penalty(state.name, a[1], a[2])
      r4 == calculate_soft_constraint_penalty(state.name, b[1], b[2])
  IN \/ l1 < r1
     \/ l1 = r1 /\ l2 < r2
     \/ l1 = r1 /\ l2 = r2 /\ l3 < r3
     \/ l1 = r1 /\ l2 = r2 /\ l3 = r3 /\ l4 < r4

(* C30: the slot of a committed lecture session is a candidate slot of the
   course that passes isAvailable and has no cohort conflict, and no other
   such slot has a strictly smaller tuple (dayLoad, facultyDayLoad,
   preference rank, penalty) on the state before the commit *)
C30_LectureSlotIsMinimal ==
  [][lecture_commit =>
       LET state == course_states[idx]
           unit == log'[Len(log')].slots
       IN /\ Len(unit) = 1
          /\ unit[1] \in passing_slots(state)
          /\ \A o \in passing_slots(state) : ~four_tuple_smaller(state, o, unit[1])]_vars

(* a lecture session sits at a later band of a day although an earlier,
   better-ranked band of the course on another day is still free: the loads
   of the days decided before the preference rank *)
C30_Witness ==
  /\ pc = "done"
  /\ \E i \in DOMAIN log, j \in DOMAIN course_states :
       /\ course_states[j].name = log[i].course
       /\ course_states[j].session_type # "lab"
       /\ \E s \in Range(course_states[j].available_slots) :
            /\ s \notin global_slot_usage
            /\ s[1] # log[i].slots[1][1]
            /\ get_time_preference(s[2]) < get_time_preference(log[i].slots[1][2])

(* ------------------- C24: a sole lecture course ----------------------- *)
returned_sessions ==
  UNION {{<<k, i>> : i \in DOMAIN timetable.slots[k]} : k \in DOMAIN timetable.slots}

days_covered(slots) == {slots[i][1] : i \in DOMAIN slots}

(* the only course of the run is a lecture course whose candidate slots
   cover at least weeklyTarget distinct days *)
sole_lecture_course ==
  /\ Len(training_data) = 1
  /\ session_type_of(training_data[1]) # "lab"
  /\ Cardinality(days_covered(avail_of(training_data[1]))) >= weekly_of(training_data[1])

(* C24: a sole lecture course with weeklyTarget n whose candidate slots
   cover at least n distinct days has exactly n sessions in the returned
   timetable, no two of them on the same day, whatever the tie-break chose *)
C24_SoleLectureOnePerDay ==
  (run_ended /\ sole_lecture_course) =>
    /\ Cardinality(returned_sessions) = weekly_of(training_data[1])
    /\ \A p \in returned_sessions :
         /\ timetable.slots[p[1]][p[2]].course = training_data[1].name
         /\ p[1] \in Range(avail_of(training_data[1]))
    /\ \A p, q \in returned_sessions : p # q => p[1][1] # q[1][1]

(* availability "monday,wednesday,friday", weeklyTarget 3, three sessions *)
C24_Witness ==
  /\ run_ended
  /\ sole_lecture_course
  /\ weekly_of(training_data[1]) = 3
  /\ days_covered(avail_of(training_data[1])) = {"Monday", "Wednesday", "Friday"}
  /\ Cardinality(returned_sessions) = 3

(* ------------------- C27: training data without 'metadata' ------------ *)
(* C27: with a 'courses_info' map only, the availabilities given as text,
   solve_timetable returns a timetable: the call never ends in an error *)
C27_ReturnsWithoutMetadata ==
  (~has_metadata /\ \A i \in DOMAIN training_data : slots_are_str(training_data[i]))
    => pc # "KeyError"

(* ------------------------ C22: one slot grid --------------------------- *)
legacy_indices == DOMAIN slot_mapping

(* an ORToolsTimetableSolver has been constructed *)
exact_constructed ==
  pc \in {"exact_start", "exact_model", "exact_status", "exact_returned", "exact_none"}

(* C22: the ordered list of time bands, and the band of every legacy index
   k of a token <day><k>, are the same in the greedy scheduler and in the
   exact solver *)
C22_OneGrid ==
  exact_constructed =>
    /\ exact_time_slots = time_slots
    /\ \A k \in legacy_indices :
         /\ dict_has(exact_slot_mapping, <<k>>)
         /\ dict_get(exact_slot_mapping, <<k>>) = slot_mapping[k]

(* ---------------- C21: both engines, the same course set -------------- *)
timetable_returned == pc \in {"returned", "done", "exact_returned"}

sessions_at(k) == timetable.slots[k]

(* C21: a timetable returned by the exact solver or by the greedy scheduler
   holds no two sessions of one faculty, and no two sessions of one room, at
   one slot key *)
C21_BothEnginesNoDoubleBooking ==
  timetable_returned =>
    \A k \in DOMAIN timetable.slots :
      \A i, j \in DOMAIN sessions_at(k) :
        i # j => /\ sessions_at(k)[i].faculty # sessions_at(k)[j].faculty
                 /\ sessions_at(k)[i].room # sessions_at(k)[j].room

(* the exact solver returned a timetable with two courses of one faculty
   that share a candidate slot *)
C21_Witness ==
  /\ pc = "exact_returned"
  /\ ORTOOLS_AVAILABLE
  /\ \E c1, c2 \in DOMAIN exact_courses :
       /\ c1 # c2
       /\ exact_courses[c1].faculty = exact_courses[c2].faculty
       /\ Range(exact_courses[c1].available_slots)
            \cap Range(exact_courses[c2].available_slots) # {}
       /\ \E v1, v2 \in solution : v1[1] = c1 /\ v2[1] = c2

(* ------------------ C23: the backend fails to initialize -------------- *)
(* C23: when the exact backend fails to initialize, at import time or in
   initialize_solver, the next thing the program does is run the greedy
   scheduler *)
C23_FallsBackToGreedy ==
  [][(\/ pc = "initialize_failed"
      \/ (pc = "main" /\ ~ORTOOLS_AVAILABLE)) => pc' = "idle"]_vars

(* ---------------- C25: raising a weekly target ------------------------ *)
(* the units the previous call committed for a course: sessions of a
   lecture course, blocks of a lab course *)
units_before(c) ==
  LET info == prev_training_data[c]
      entries == Cardinality({p \in
                   UNION {{<<k, i>> : i \in DOMAIN prev_timetable.slots[k]} :
                          k \in DOMAIN prev_timetable.slots} :
                   prev_timetable.slots[p[1]][p[2]].course = info.name})
  IN IF session_type_of(info) = "lab" THEN entries \div block_hours ELSE entries

deficit_before(c) == weekly_of(prev_training_data[c]) - units_before(c)

deficit_after(c) == weekly_of(training_data[c]) - units_committed(training_data[c].name)

raised_call_ended == run = 2 /\ run_ended /\ prev_training_data # <<>>

(* C25: after the weekly target of a course is raised, its candidate slots
   and all other courses unchanged, the deficit of the course is not smaller
   than it was *)
C25_DeficitMonotone ==
  raised_call_ended =>
    \A c \in DOMAIN training_data :
      weekly_of(training_data[c]) > weekly_of(prev_training_data[c])
        => deficit_after(c) >= deficit_before(c)

(* ------------------------ C26: a second call --------------------------- *)
second_call_same_input == run = 2 /\ prev_training_data = training_data

(* the state a newly constructed solver has when its first round begins *)
as_fresh ==
  /\ scheduled_slots = EmptyMap
  /\ course_schedule = EmptyMap
  /\ global_slot_usage = {}
  /\ \A f \in Faculties : faculty_schedule[f] = {}
  /\ \A r \in Rooms : room_schedule[r] = {}
  /\ \A d \in DaySet : day_load[d] = 0
  /\ \A fd \in Faculties \X DaySet : faculty_day_load[fd] = 0
  /\ \A n \in CourseNames : actual_weekly[n] = 0
  /\ failure_reasons = EmptyMap
  /\ log = <<>>
  /\ \A i \in DOMAIN course_states :
       course_states[i].remaining = course_states[i].weekly_target

(* C26: a second call on the same solver with the same input begins its
   first round in the state of a new solver, can commit at every point the
   unit the first call committed there, and with the same tie-breaks returns
   the timetable of the first call; the cap the first call may have relaxed
   changes nothing *)
C26_SecondCallAsFresh ==
  second_call_same_input =>
    /\ (pc = "main_head" /\ round_idx = 0) => as_fresh
    /\ replay_ok
    /\ pc # "idle" => Len(log) <= Len(prev_log)
    /\ run_ended => (log = prev_log /\ timetable = prev_timetable)

(* the second call has returned; the first call had placed sessions, left a
   course short and relaxed the cap *)
C26_Witness ==
  /\ second_call_same_input
  /\ pc = "done"
  /\ Len(prev_log) >= 2
  /\ failure_reasons # EmptyMap
  /\ MAX_FACULTY_SESSIONS_PER_DAY = RELAXED_FACULTY_CAP

(* ------------------------ C31: is_slot_available ----------------------- *)
(* (a) parallel scheduling is disabled and the slot key has an occupant *)
slot_taken(k) == ~allow_parallel /\ slot_courses(k) # {}

faculty_busy(k, faculty) == \E i \in DOMAIN slot_sessions(k) : slot_sessions(k)[i].faculty = faculty

room_busy(k, room) == \E i \in DOMAIN slot_sessions(k) : slot_sessions(k)[i].room = room

(* C31: is_slot_available is false exactly when the slot key is occupied
   (parallel scheduling disabled), or the faculty has a session at the slot
   key, or the room has one; it is true in every other case *)
C31_AvailableExactly ==
  in_solve =>
    \A d \in DaySet, t \in TimeSet, f \in Faculties, r \in Rooms :
      is_slot_available(d, t, f, r)
        = ~(slot_taken(<<d, t>>) \/ faculty_busy(<<d, t>>, f) \/ room_busy(<<d, t>>, r))

(* a slot key occupied by a session of another faculty in another room is
   refused, and a free slot key is granted *)
C31_Witness ==
  /\ in_solve
  /\ \E k \in DOMAIN scheduled_slots, f \in Faculties, r \in Rooms :
       /\ slot_sessions(k) # <<>>
       /\ ~faculty_busy(k, f)
       /\ ~room_busy(k, r)
       /\ ~is_slot_available(k[1], k[2], f, r)
  /\ \E d \in DaySet, t \in TimeSet, f \in Faculties, r \in Rooms :
       is_slot_available(d, t, f, r)

(* ------------------- C32: trackers agree with timetable ---------------- *)
sessions_of_faculty(faculty) == {p \in Sessions : session_of(p).faculty = faculty}

sessions_of_room(room) == {p \in Sessions : session_of(p).room = room}

sessions_on(day) == {p \in Sessions : p[1][1] = day}

(* C32: in every state of a run the trackers agree with the committed
   timetable: faculty_schedule[f] and room_schedule[r] are exactly the slot
   keys of the sessions of f and of r, course_schedule[k] exactly the courses
   with a session at k, day_load[d] and faculty_day_load[(f, d)] the number of
   committed slot-hours on d (of f on d), and actual_weekly[c] the number of
   timetable entries of c *)
C32_TrackersAgree ==
  /\ \A f \in Faculties : faculty_schedule[f] = {p[1] : p \in sessions_of_faculty(f)}
  /\ \A r \in Rooms : room_schedule[r] = {p[1] : p \in sessions_of_room(r)}
  /\ \A d \in DaySet, t \in TimeSet :
       slot_courses(<<d, t>>) =
         {slot_sessions(<<d, t>>)[i].course : i \in DOMAIN slot_sessions(<<d, t>>)}
  /\ \A d \in DaySet : day_load[d] = Cardinality(sessions_on(d))
  /\ \A f \in Faculties, d \in DaySet :
       faculty_day_load[<<f, d>>] = Cardinality(sessions_on(d) \cap sessions_of_faculty(f))
  /\ \A c \in DOMAIN actual_weekly : actual_weekly[c] = entries_of(c)

(* a lab block and a lecture of another faculty are both committed *)
C32_Witness ==
  /\ \E p \in Sessions, q \in Sessions :
       /\ session_of(p).session_type = "lab"
       /\ session_of(q).session_type = "lecture"
       /\ session_of(p).faculty # session_of(q).faculty
  /\ \E d \in DaySet : day_load[d] >= 2

(* ---------------------- C33: assignments append-only ------------------- *)
in_run == pc \in {"main_head", "main_for", "mark", "relax_head", "relax_for", "finish"}

(* every session of the timetable is still where it was, unchanged *)
sessions_kept ==
  \A k \in DOMAIN scheduled_slots :
    /\ k \in DOMAIN scheduled_slots'
    /\ Len(scheduled_slots'[k]) >= Len(scheduled_slots[k])
    /\ SubSeq(scheduled_slots'[k], 1, Len(scheduled_slots[k])) = scheduled_slots[k]

(* C33: within one run the assignments are append-only: no step of the main
   rounds or of the relaxation pass removes, moves or changes a session that
   is already in the timetable *)
C33_AppendOnly == [][in_run => sessions_kept]_vars

(* the relaxation pass is running over a timetable of two units or more *)
C33_Witness ==
  /\ pc = "relax_for"
  /\ idx > 1
  /\ Len(log) >= 2

(* -------------------- C34: a failed attempt changes nothing ------------ *)
(* a placement routine was called for the course at idx *)
attempt_step ==
  /\ in_round
  /\ ~skip_course(course_states[idx])
  /\ idx' = idx + 1

(* the routine returned False: remaining is not decremented *)
attempt_failed == attempt_step /\ course_states' = course_states

new_sessions == Sessions' \ Sessions

(* C34: a failed placement attempt changes nothing: the timetable, the
   faculty and room schedules, the slot occupancy, the load counters and
   actual_weekly are as before; a lab block is committed with all its slots
   or with none of them *)
C34_FailedAttemptChangesNothing ==
  [][/\ attempt_failed => UNCHANGED tracker_vars
     /\ (attempt_step /\ course_states[idx].session_type = "lab") =>
          \/ UNCHANGED tracker_vars
          \/ /\ Cardinality(new_sessions) = block_hours
             /\ \A p \in new_sessions :
                  /\ scheduled_slots'[p[1]][p[2]].course = course_states[idx].name
                  /\ scheduled_slots'[p[1]][p[2]].session_type = "lab"
             /\ sessions_kept]_vars

(* the attempt for the course before idx failed in this round over a
   timetable that already holds a lab block *)
C34_Witness ==
  /\ pc \in {"main_for", "relax_for"}
  /\ idx > 1
  /\ ~progress
  /\ course_states[idx - 1].remaining > 0
  /\ course_states[idx - 1].session_type = "lab"
  /\ \E p \in Sessions : session_of(p).session_type = "lab"

(* ------------------ C35: the relaxation pass places nothing ------------ *)
in_relaxation == pc \in {"relax_head", "relax_for"}

(* C35: on the 5 x 9 grid with parallel scheduling disabled the emergency
   relaxation pass never commits a session: the main loop ends on a round
   without placement, the raised MAX_FACULTY_SESSIONS_PER_DAY is read by no
   placement test, so the first relaxation round places nothing and the
   timetable after the pass is the timetable before it *)
C35_RelaxationPlacesNothing ==
  [][/\ pc = "mark" => ~progress
     /\ in_relaxation =>
          /\ UNCHANGED <<tracker_vars, course_states, log>>
          /\ pc' = "relax_head" => retry' = retry
          /\ ~progress']_vars

(* the relaxation pass has attempted a course that is short of its target,
   under the raised cap *)
C35_Witness ==
  /\ pc = "relax_for"
  /\ idx > 1
  /\ course_states[idx - 1].remaining > 0
  /\ MAX_FACULTY_SESSIONS_PER_DAY = RELAXED_FACULTY_CAP
  /\ Sessions # {}

(* ------------------- C36: one session per slot key --------------------- *)
(* C36: with parallel scheduling disabled every slot key of the timetable
   holds at most one session, whatever the faculty and the rooms of the
   courses that want it; so the timetable never holds more slot-hours than
   the grid has slot keys, 45 *)
C36_OneSessionPerSlotKey ==
  ~allow_parallel =>
    /\ \A k \in DOMAIN scheduled_slots : Len(scheduled_slots[k]) <= 1
    /\ DOMAIN scheduled_slots \subseteq DaySet \X TimeSet
    /\ Cardinality(Sessions) <= Cardinality(DaySet \X TimeSet)
    /\ Cardinality(DaySet \X TimeSet) = 45

(* two courses of different faculty and rooms, in no common cohort, wanted
   one slot key and hold different ones *)
C36_Witness ==
  /\ ~allow_parallel
  /\ \E p, q \in Sessions :
       /\ Contended(p, q)
       /\ session_of(p).faculty # session_of(q).faculty
       /\ session_of(p).room # session_of(q).room
       /\ ~courses_conflict(str_lower(session_of(p).course),
                            str_lower(session_of(q).course))

(* -------------------- C37: the exact solver, all or nothing ------------ *)
exact_ended == pc \in {"exact_returned", "exact_none"}

(* the number of slots the equality constraint demands for a course *)
required_slots(c) == exact_courses[c].duration

parsed_keys(c) ==
  {<<days[x[1]], exact_time_slots[x[2]]>> : x \in Range(exact_courses[c].available_slots)}

keys_held(c) == {x[1] : x \in exact_sessions_of(exact_courses[c].name)}

(* a choice of slot keys for every course: the required number, inside the
   parsed availability, no faculty and no room at one key twice *)
placement_exists ==
  \E choice \in [DOMAIN exact_courses ->
                    SUBSET UNION {parsed_keys(c) : c \in DOMAIN exact_courses}] :
    /\ \A c \in DOMAIN exact_courses :
         /\ choice[c] \subseteq parsed_keys(c)
         /\ Cardinality(choice[c]) = required_slots(c)
    /\ \A c1, c2 \in DOMAIN exact_courses :
         (c1 # c2 /\ (\/ exact_courses[c1].faculty = exact_courses[c2].faculty
                      \/ exact_courses[c1].room = exact_courses[c2].room))
           => choice[c1] \cap choice[c2] = {}

(* a course whose parsed availability is smaller than its required number *)
starved(c) == Cardinality(parsed_keys(c)) < required_slots(c)

(* C37: the exact solver is all or nothing: when some course cannot receive
   exactly its required number of slots inside its parsed availability under
   the faculty and room constraints, solve_timetable returns None; a
   timetable it returns holds every course exactly its required number of
   times, never less *)
C37_AllOrNothing ==
  exact_ended =>
    /\ (\E c \in DOMAIN exact_courses : starved(c)) => pc = "exact_none"
    /\ ~placement_exists => pc = "exact_none"
    /\ pc = "exact_none" =>
         /\ ~placement_exists
         /\ timetable = [slots |-> EmptyMap]
         /\ status # "OPTIMAL"
    /\ pc = "exact_returned" =>
         \A c \in DOMAIN exact_courses :
           /\ Cardinality(exact_sessions_of(exact_courses[c].name)) = required_slots(c)
           /\ Cardinality(keys_held(c)) = required_slots(c)
           /\ keys_held(c) \subseteq parsed_keys(c)

(* None is returned although one of the two courses, taken alone, could
   have been given all its slots *)
C37_Witness ==
  /\ pc = "exact_none"
  /\ Len(exact_courses) = 2
  /\ \E c1, c2 \in DOMAIN exact_courses :
       /\ starved(c1)
       /\ ~starved(c2)
       /\ exact_courses[c1].available_slots # <<>>
  /\ ~placement_exists

(* ------------- C38: the records of solve_timetable_from_data ----------- *)
converted == pc # "from_data" /\ courses_data # <<>>

named_records == {i \in DOMAIN courses_data : course_name_of(courses_data[i]) # <<>>}

(* the last record of the request with the normalized name n *)
last_record(n) ==
  courses_data[SetMax({i \in named_records : course_name_of(courses_data[i]) = n})]

(* the sessions of the timetable under construction and of the returned
   timetable *)
all_sessions ==
  {session_of(p) : p \in Sessions}
    \cup {timetable.slots[p[1]][p[2]] : p \in returned_sessions}

(* C38: solve_timetable_from_data keys the courses by the trimmed,
   lower-cased name: of the records with one normalized name only the last
   takes part in the run; the earlier ones, and every record with an empty
   name, are neither in the timetable nor in the failure reasons *)
C38_LastRecordWins ==
  converted =>
    LET names == {course_name_of(courses_data[i]) : i \in named_records}
    IN /\ {training_data[j].name : j \in DOMAIN training_data} = names
       /\ Len(training_data) = Cardinality(names)
       /\ \A j \in DOMAIN training_data :
            LET r == last_record(training_data[j].name)
            IN /\ training_data[j].faculty = r.faculty
               /\ training_data[j].room = r.room
               /\ training_data[j].weekly_count = r.weekly_count
               /\ training_data[j].available_slots = parse_availability_slots(r.availability)
       /\ \A x \in all_sessions :
            /\ x.course \in names
            /\ x.faculty = last_record(x.course).faculty
            /\ x.room = last_record(x.course).room
       /\ \A k \in DOMAIN scheduled_slots : \A i \in DOMAIN scheduled_slots[k] :
            k \in Range(parse_availability_slots(
                          last_record(scheduled_slots[k][i].course).availability))
       /\ DOMAIN failure_reasons \subseteq names
       /\ DOMAIN expected_weekly \subseteq names

(* the run has ended on a request with two records of one normalized name
   and different faculty, and a record without a name: the course is in the
   timetable, with the faculty of the later record *)
C38_Witness ==
  /\ converted
  /\ run_ended
  /\ \E i, j \in named_records :
       /\ i < j
       /\ course_name_of(courses_data[i]) = course_name_of(courses_data[j])
       /\ courses_data[i].faculty # courses_data[j].faculty
       /\ \E x \in all_sessions :
            x.course = course_name_of(courses_data[j]) /\ x.faculty = courses_data[j].faculty
  /\ \E i \in DOMAIN courses_data : i \notin named_records

(* ---------------- C39: the legacy one-pass schedule -------------------- *)
band_index(time) == CHOOSE i \in DOMAIN time_periods : time_periods[i] = time

(* the slot keys at which the schedule holds an entry of the course *)
keys_in(sched, name) == {k \in DOMAIN sched : \E e \in Range(sched[k]) : e.course = name}

keys_of(name) == keys_in(schedule, name)

entry_count(name) ==
  Cardinality({<<k, i>> \in (DOMAIN schedule) \X (1..Len(training_data)) :
                 i \in DOMAIN schedule[k] /\ schedule[k][i].course = name})

(* the starts of the course in the schedule sched: a slot of its list, with
   duration bands of the day from it on, none with its faculty or room *)
starts_in(course, sched) ==
  {s \in Range(parse_available_slots(course.available_slots)) :
     \A n \in band_index(s[2])..(band_index(s[2]) + course.duration - 1) :
       /\ n <= Len(time_periods)
       /\ \A e \in Range(sched[<<s[1], time_periods[n]>>]) :
            e.faculty # course.faculty /\ e.room # course.room}

schedule_well_formed ==
  /\ \A k \in DOMAIN schedule : \A i, j \in DOMAIN schedule[k] :
       i # j => /\ schedule[k][i].faculty # schedule[k][j].faculty
                /\ schedule[k][i].room # schedule[k][j].room
  /\ \A c \in DOMAIN training_data :
       LET course == training_data[c]
           keys == keys_of(course.name)
       IN keys # {} =>
            /\ Cardinality(keys) = course.duration
            /\ entry_count(course.name) = course.duration
            /\ \E s \in Range(parse_available_slots(course.available_slots)) :
                 keys = {<<s[1], time_periods[n]>> :
                           n \in band_index(s[2])..(band_index(s[2]) + course.duration - 1)}

(* C39: in the schedule of generate_schedule no slot holds two entries of
   one faculty or of one room; a scheduled course holds exactly 'duration'
   index-consecutive bands of one day, from one of its available slots on;
   a course without such a start when its turn comes is left without any
   entry, a course with one is scheduled *)
C39_LegacySchedule ==
  [][/\ pc' \in {"legacy_for", "legacy_returned"} => schedule_well_formed'
     /\ (pc = "legacy_for" /\ idx <= Len(sorted_courses)) =>
          LET course == sorted_courses[idx]
          IN /\ starts_in(course, schedule) = {} =>
                  (schedule' = schedule /\ keys_in(schedule', course.name) = {})
             /\ starts_in(course, schedule) # {} => keys_in(schedule', course.name) # {}
             /\ \A k \in DOMAIN schedule :
                  SubSeq(schedule'[k], 1, Len(schedule[k])) = schedule[k]]_vars

(* the schedule is returned with a course of two bands that spans
   12:00-13:00 and 14:00-15:00, and a course left out because its faculty
   or its room was taken *)
C39_Witness ==
  /\ pc = "legacy_returned"
  /\ \E c \in DOMAIN training_data :
       /\ training_data[c].duration = 2
       /\ keys_of(training_data[c].name) = {<<"Monday", "12:00-13:00">>, <<"Monday", "14:00-15:00">>}
  /\ \E c \in DOMAIN training_data :
       /\ keys_of(training_data[c].name) = {}
       /\ parse_available_slots(training_data[c].available_slots) # <<>>

====
